---- MODULE Spec2Model ----
(***************************************************************************)
(* Model of the AI e-mail agent backend (FastAPI + SQLAlchemy):            *)
(*   - message reconciliation   (endpoints/email.py: sync_emails,          *)
(*                               process_emails, mark_email_read)          *)
(*   - calendar reconciliation  (endpoints/calendar.py)                    *)
(*   - summary generation       (endpoints/summary.py)                     *)
(*   - task/event extraction    (endpoints/reminders.py, llm_service.py)   *)
(*                                                                         *)
(* Background tasks run after the response.  The application may be served *)
(* by several worker processes over one database, so tasks and requests    *)
(* interleave at their awaits and between their database statements.       *)
(* Scores are kept in tenths (5.0 is 50).                                  *)
(***************************************************************************)
EXTENDS Integers, Sequences, FiniteSets, Bags, TLC

VARIABLES
    gmail_token,     \* User.gmail_token is set (models/email.py:71)
    mailbox,         \* the remote mailbox, as fetch_emails lists it
    emails,          \* table "emails": a set of Email rows
    mailTasks,       \* the process_emails background tasks in progress
    calendar_token,  \* User.calendar_token is set (models/email.py:73)
    gcal,            \* the remote calendar, as get_upcoming_events lists it
    events,          \* table "calendar_events": a set of CalendarEvent rows
    event_seq,       \* the last primary key given to a CalendarEvent
    calRuns,         \* the sync_calendar_events requests in progress
    OPENAI_API_KEY,  \* settings.OPENAI_API_KEY is set (core/config.py:51)
    ANTHROPIC_API_KEY, \* settings.ANTHROPIC_API_KEY is set (core/config.py:54)
    llm,             \* the LLMService call in progress, or the last one made
    nlp,             \* the last analysis NLPService.analyze_email returned
    resp,            \* the response to the last summary or reminder request
    summaries,       \* table "email_summaries": a set of EmailSummary rows
    summary_seq,     \* the last primary key given to an EmailSummary
    sumTasks,        \* the create_email_summary background tasks in progress
    sum_started,     \* how many create_email_summary tasks were scheduled
    reminders,       \* table "reminders": a set of Reminder rows
    reminder_seq,    \* the last primary key given to a Reminder
    extTasks,        \* the process_email_for_reminders tasks in progress
    ext_started      \* how many process_email_for_reminders tasks were scheduled

mailVars == <<gmail_token, mailbox, emails, mailTasks>>
calVars == <<calendar_token, gcal, events, event_seq, calRuns>>
sumVars == <<summaries, summary_seq, sumTasks, sum_started>>
extVars == <<reminders, reminder_seq, extTasks, ext_started>>
svcVars == <<OPENAI_API_KEY, ANTHROPIC_API_KEY, llm, nlp>>
aiVars == <<svcVars, resp, sumVars, extVars>>

vars == <<mailVars, calVars, aiVars>>

(***************************************************************************)
(* Bounds of the model.                                                    *)
(***************************************************************************)
\* Items a remote mailbox or calendar lists.
MaxBatch == 2
\* Sync runs of one kind in progress at a time.
MaxSyncs == 2

\* Python's None / SQL NULL, in a string column and in a DateTime column.
None == "None"
NoTime == 0 - 1

Min(a, b) == IF a < b THEN a ELSE b
Max(a, b) == IF a > b THEN a ELSE b

(***************************************************************************)
(* Heuristic analyzer (services/nlp_service.py).  A text is represented by *)
(* what the analyzer reads of it: the number of keywords of each urgency   *)
(* class it contains, the number of time-sensitive patterns it matches,    *)
(* its number of question marks, and its keyword hits per category.        *)
(***************************************************************************)
PlainText ==
    [hi |-> 0, med |-> 0, lo |-> 0, pat |-> 0, q |-> 0,
     work |-> 0, personal |-> 0, promotional |-> 0, social |-> 0]

UrgentText ==
    [hi |-> 2, med |-> 0, lo |-> 0, pat |-> 0, q |-> 1,
     work |-> 0, personal |-> 1, promotional |-> 0, social |-> 0]

\* A score to which a keyword class contributes at most once.
ScoreCappedPerClass(text) ==
    50 + 20 * Min(text.hi, 1) + 10 * Min(text.med, 1) - 10 * Min(text.lo, 1)
       + 15 * text.pat + Min(5 * text.q, 20)

\* Lines 77-103: `score` before it is normalised.
score(text) ==
    50 + 20 * text.hi + 10 * text.med - 10 * text.lo
       + 15 * text.pat + Min(5 * text.q, 20)

calculate_urgency_score(text) == Max(10, Min(100, score(text)))

\* A classifier whose upper threshold is strict.
ClassifyPriorityStrict(text) ==
    LET urgency_score == calculate_urgency_score(text)
    IN  IF urgency_score > 70 THEN "high"
        ELSE IF urgency_score >= 40 THEN "medium"
        ELSE "low"

classify_priority(text) ==
    LET urgency_score == calculate_urgency_score(text)
    IN  IF urgency_score >= 70 THEN "high"
        ELSE IF urgency_score >= 40 THEN "medium"
        ELSE "low"

Categories == <<"work", "personal", "promotional", "social">>

CategoryScore(text, c) ==
    CASE c = "work" -> text.work
      [] c = "personal" -> text.personal
      [] c = "promotional" -> text.promotional
      [] c = "social" -> text.social

\* The last key, in insertion order, whose score is the maximum.
ClassifyCategoryLastMax(text) ==
    LET best == CHOOSE i \in 1..4 :
                  /\ \A j \in 1..4 :
                        CategoryScore(text, Categories[j]) <= CategoryScore(text, Categories[i])
                  /\ \A j \in (i + 1)..4 :
                        CategoryScore(text, Categories[j]) < CategoryScore(text, Categories[i])
    IN  IF CategoryScore(text, Categories[best]) > 0 THEN Categories[best] ELSE "work"

\* max(scores, key=scores.get): the first key, in insertion order, whose
\* score is the maximum; "work" when every score is 0.
classify_category(text) ==
    LET best == CHOOSE i \in 1..4 :
                  /\ \A j \in 1..4 :
                        CategoryScore(text, Categories[j]) <= CategoryScore(text, Categories[i])
                  /\ \A j \in 1..(i - 1) :
                        CategoryScore(text, Categories[j]) < CategoryScore(text, Categories[i])
    IN  IF CategoryScore(text, Categories[best]) > 0 THEN Categories[best] ELSE "work"

analyze_email(text) ==
    [urgency_score |-> calculate_urgency_score(text),
     priority |-> classify_priority(text),
     category |-> classify_category(text)]

(***************************************************************************)
(* LLM service (services/llm_service.py).  A call's outcome is a record:   *)
(* `raised` tells that an exception left the call, `value` is what the     *)
(* call returned, `called` lists the provider completions it awaited.      *)
(***************************************************************************)
\* What a provider's completion call does: its text is a JSON object with
\* the fields the prompt asks for, another JSON value, or no JSON at all,
\* or the call raises (network, quota, client library).
CompletionAnswers == {"object", "array", "text", "exception"}

\* What the provider's chat call does for a reply: a text or an exception.
ReplyAnswers == {"text", "exception"}

\* The provider names and the tones callers pass; "gpt-4" is no provider
\* name and "formal" no key of the tone tables.
ModelNames == {"openai", "anthropic", "gpt-4"}
Tones == {"professional", "friendly", "brief", "formal"}

ObjectSummary ==
    [json |-> "object", summary |-> "Bob asks for the report",
     sentiment |-> "positive", urgency_score |-> 80,
     action_items |-> <<"send the report">>, entities |-> <<"Bob">>]

ArraySummary ==
    [json |-> "array", summary |-> None, sentiment |-> None,
     urgency_score |-> 0, action_items |-> <<>>, entities |-> <<>>]

NoData ==
    [json |-> "null", summary |-> None, sentiment |-> None,
     urgency_score |-> 0, action_items |-> <<>>, entities |-> <<>>]

_fallback_summary ==
    [json |-> "object", summary |-> "Email summary unavailable",
     sentiment |-> "neutral", urgency_score |-> 50,
     action_items |-> <<>>, entities |-> <<>>]

\* replies.get(tone, replies["professional"])
_fallback_reply(tone) ==
    CASE tone = "professional" -> "Thank you for your email. I will review this and get back to you soon."
      [] tone = "friendly" -> "Hi! Thanks for reaching out. I'll take a look at this and respond shortly."
      [] tone = "brief" -> "Thanks for the email. Will respond soon."
      [] OTHER -> "Thank you for your email. I will review this and get back to you soon."

\* json.loads(response.choices[0].message.content)
_openai_completion(answer) ==
    CASE answer = "object" -> [raised |-> FALSE, value |-> ObjectSummary, called |-> <<"openai">>]
      [] answer = "array" -> [raised |-> FALSE, value |-> ArraySummary, called |-> <<"openai">>]
      [] OTHER -> [raised |-> TRUE, value |-> NoData, called |-> <<"openai">>]

\* json.loads(response.content[0].text)
_anthropic_completion(answer) ==
    CASE answer = "object" -> [raised |-> FALSE, value |-> ObjectSummary, called |-> <<"anthropic">>]
      [] answer = "array" -> [raised |-> FALSE, value |-> ArraySummary, called |-> <<"anthropic">>]
      [] OTHER -> [raised |-> TRUE, value |-> NoData, called |-> <<"anthropic">>]

\* The try block of summarize_email: the completion of the named provider
\* when its key is set, ValueError otherwise.
SummarizeTry(model, openai_key, anthropic_key, answer) ==
    IF model = "openai" /\ openai_key THEN _openai_completion(answer)
    ELSE IF model = "anthropic" /\ anthropic_key THEN _anthropic_completion(answer)
    ELSE [raised |-> TRUE, value |-> NoData, called |-> <<>>]

\* A summarize_email without its except clause.
SummarizeUncaught(model, openai_key, anthropic_key, answer) ==
    SummarizeTry(model, openai_key, anthropic_key, answer)

\* except Exception: return self._fallback_summary(email_content)
summarize_email(model, openai_key, anthropic_key, answer) ==
    LET try == SummarizeTry(model, openai_key, anthropic_key, answer)
    IN  IF try.raised
        THEN [raised |-> FALSE, value |-> _fallback_summary, called |-> try.called]
        ELSE try

\* response.choices[0].message.content.strip()
ChatReply(provider, answer) ==
    CASE answer = "text" -> [raised |-> FALSE, value |-> "Dear Bob, the report is attached.",
                             called |-> <<provider>>]
      [] OTHER -> [raised |-> TRUE, value |-> None, called |-> <<provider>>]

\* The try block of generate_reply: the first provider whose key is set is
\* asked; with no key the block ends without a return statement.
ReplyTry(openai_key, anthropic_key, answer) ==
    IF openai_key THEN ChatReply("openai", answer)
    ELSE IF anthropic_key THEN ChatReply("anthropic", answer)
    ELSE [raised |-> FALSE, value |-> None, called |-> <<>>]

\* A generate_reply without its except clause.
ReplyUncaught(tone, openai_key, anthropic_key, answer) ==
    ReplyTry(openai_key, anthropic_key, answer)

\* except Exception: return self._fallback_reply(tone)
generate_reply(tone, openai_key, anthropic_key, answer) ==
    LET try == ReplyTry(openai_key, anthropic_key, answer)
    IN  IF try.raised
        THEN [raised |-> FALSE, value |-> _fallback_reply(tone), called |-> try.called]
        ELSE try

\* No call of the service, no analysis yet.
NoCall == <<>>
NoAnalysis ==
    [text |-> PlainText, urgency_score |-> 0, priority |-> None, category |-> None]

(***************************************************************************)
(* Fetched messages.  `timestamp` is the Date header as the mailbox gives  *)
(* it, `db_ok` says whether the database accepts the row built from the    *)
(* message (a row it rejects makes the INSERT, hence db.commit(), raise).  *)
(***************************************************************************)
GmailIds == {"A", "B"}
IsoTime == "2024-01-01T10:00:00Z"
LaterTime == "2024-01-01T12:30:00Z"
Timestamps == {IsoTime, "Mon, 1 Jan 2024 10:00:00 +0000"}

Items ==
    {it \in [gmail_id : GmailIds, text : {PlainText, UrgentText},
             timestamp : Timestamps, db_ok : BOOLEAN] :
        \/ it.timestamp = IsoTime /\ it.db_ok
        \/ it.text = PlainText /\ (it.timestamp = IsoTime \/ it.db_ok)}

\* The lists a fetch can give: at most MaxBatch messages, at most one of
\* them defective.
Mailboxes ==
    {box \in UNION {[1..n -> Items] : n \in 0..MaxBatch} :
        Cardinality({j \in DOMAIN box :
            box[j].timestamp # IsoTime \/ ~ box[j].db_ok}) <= 1}

\* datetime.fromisoformat(ts.replace('Z', '+00:00')): the parsed value, or a
\* ValueError for a string that is not ISO 8601.
fromisoformat(ts) ==
    IF ts = IsoTime
    THEN [error |-> FALSE, value |-> 1704103200]
    ELSE IF ts = LaterTime
    THEN [error |-> FALSE, value |-> 1704112200]
    ELSE [error |-> TRUE, value |-> NoTime]

\* gmail_service.fetch_emails: at most max_results messages of the mailbox.
fetch_emails(box, max_results) == SubSeq(box, 1, Min(max_results, Len(box)))

GmailIdsOf(store) == {e.gmail_id : e \in store}

\* db.query(Email).filter(Email.gmail_id == gmail_id).first()
ExistingEmail(store, gmail_id) == \E e \in store : e.gmail_id = gmail_id

\* datetime.utcnow(), as a logical time: it grows with every committed row.
utcnow(store) == Cardinality(store) + 1

\* A row built without its external id (the column is nullable).
NewEmailWithoutGmailId(store, m) ==
    LET analysis == analyze_email(m.text)
    IN  [id |-> Cardinality(store) + 1,
         gmail_id |-> None,
         text |-> m.text,
         timestamp |-> fromisoformat(m.timestamp).value,
         is_read |-> FALSE,
         priority |-> analysis.priority,
         category |-> analysis.category,
         urgency_score |-> analysis.urgency_score,
         is_processed |-> TRUE,
         processed_at |-> utcnow(store)]

\* The Email row process_emails builds for a fetched message.
NewEmail(store, m) ==
    LET analysis == analyze_email(m.text)
    IN  [id |-> Cardinality(store) + 1,
         gmail_id |-> m.gmail_id,
         text |-> m.text,
         timestamp |-> fromisoformat(m.timestamp).value,
         is_read |-> FALSE,
         priority |-> analysis.priority,
         category |-> analysis.category,
         urgency_score |-> analysis.urgency_score,
         is_processed |-> TRUE,
         processed_at |-> utcnow(store)]

\* The column without its unique constraint.
EmailNotUnique(store, row) == TRUE

\* Column(String, unique=True) on Email.gmail_id: the INSERT of `row` fails
\* when the table already holds its gmail_id (NULLs never collide).
EmailUniqueOk(store, row) ==
    row.gmail_id = None \/ ~ \E e \in store : e.gmail_id = row.gmail_id

(***************************************************************************)
(* One iteration of the loop of process_emails, in its two database steps. *)
(* The session is "active", or "inactive" once a commit has failed: the    *)
(* handler never calls db.rollback(), and an inactive session raises on    *)
(* every further use.                                                      *)
(***************************************************************************)
\* A lookup that takes every message for a stored one.
LookupEmailAlwaysFound(store, sess, m) ==
    IF sess # "active" THEN "error" ELSE "existing"

\* Line 201: "error" (the query raised), "existing" or "new".
LookupEmail(store, sess, m) ==
    IF sess # "active" THEN "error"
    ELSE IF ExistingEmail(store, m.gmail_id) THEN "existing"
    ELSE "new"

\* A commit that overwrites the stored row of the same external id.
UpsertEmail(store, sess, m) ==
    IF fromisoformat(m.timestamp).error
    THEN [emails |-> store, sess |-> sess, committed |-> FALSE]
    ELSE IF ~ m.db_ok
    THEN [emails |-> store, sess |-> "inactive", committed |-> FALSE]
    ELSE [emails |-> {e \in store : e.gmail_id # m.gmail_id} \cup {NewEmail(store, m)},
          sess |-> sess, committed |-> TRUE]

\* Lines 206-232: analyse, build the row, db.add, db.commit.
CommitEmail(store, sess, m) ==
    IF fromisoformat(m.timestamp).error
    THEN \* raised while building the row: nothing was added to the session
         [emails |-> store, sess |-> sess, committed |-> FALSE]
    ELSE IF ~ m.db_ok \/ ~ EmailUniqueOk(store, NewEmail(store, m))
    THEN \* db.commit() raised; the handler logs and continues
         [emails |-> store, sess |-> "inactive", committed |-> FALSE]
    ELSE [emails |-> store \cup {NewEmail(store, m)}, sess |-> sess, committed |-> TRUE]

\* Both steps with no other writer in between.
ProcessEmail(store, sess, m) ==
    IF LookupEmail(store, sess, m) = "new"
    THEN CommitEmail(store, sess, m)
    ELSE [emails |-> store, sess |-> sess, committed |-> FALSE]

\* process_emails on a whole batch, from item i on, with no other writer.
RECURSIVE RunFrom(_, _, _, _)
RunFrom(store, sess, batch, i) ==
    IF i > Len(batch) THEN store
    ELSE LET r == ProcessEmail(store, sess, batch[i])
         IN  RunFrom(r.emails, r.sess, batch, i + 1)

process_emails(store, batch) == RunFrom(store, "active", batch, 1)

(***************************************************************************)
(* POST /emails/sync                                                       *)
(***************************************************************************)
\* `count` is the count of the response; `inserted` records, for the
\* properties, the ids the task has inserted.
NewTask(batch) ==
    [batch |-> batch, i |-> 1, pc |-> IF Len(batch) = 0 THEN "done" ELSE "lookup",
     sess |-> "active", count |-> Len(batch), inserted |-> {}]

\* 401: no user, or no Gmail token.
SyncEmailsNotConnected ==
    /\ ~ gmail_token
    /\ UNCHANGED vars

\* 500: the fetch raised.
SyncEmailsFetchError ==
    /\ gmail_token
    /\ UNCHANGED vars

SyncEmails(max_results) ==
    /\ gmail_token
    /\ BagCardinality(mailTasks) < MaxSyncs
    /\ mailTasks' = mailTasks (+) SetToBag({NewTask(fetch_emails(mailbox, max_results))})
    /\ UNCHANGED <<gmail_token, mailbox, emails, calVars, aiVars>>

(***************************************************************************)
(* process_emails as a background task.  The tasks in progress are a bag:  *)
(* nothing orders them.                                                    *)
(***************************************************************************)
Advance(task) ==
    [task EXCEPT !.i = @ + 1,
                 !.pc = IF task.i + 1 > Len(task.batch) THEN "done" ELSE "lookup"]

ReplaceIn(bag, old, new) == (bag (-) SetToBag({old})) (+) SetToBag({new})

ProcessLookup(task) ==
    /\ task.pc = "lookup"
    /\ mailTasks' =
          ReplaceIn(mailTasks, task,
              IF LookupEmail(emails, task.sess, task.batch[task.i]) = "new"
              THEN [task EXCEPT !.pc = "commit"]
              ELSE Advance(task))
    /\ UNCHANGED <<gmail_token, mailbox, emails, calVars, aiVars>>

ProcessCommit(task) ==
    /\ task.pc = "commit"
    /\ LET m == task.batch[task.i]
           r == CommitEmail(emails, task.sess, m)
       IN  /\ emails' = r.emails
           /\ mailTasks' =
                ReplaceIn(mailTasks, task,
                    IF r.committed
                    THEN [task EXCEPT !.pc = "llm",
                                      !.inserted = @ \cup {m.gmail_id}]
                    ELSE Advance([task EXCEPT !.sess = r.sess]))
    /\ UNCHANGED <<gmail_token, mailbox, calVars, aiVars>>

\* A task that stores the summary it has computed.
SavedSummary(store, summary_data) ==
    store \cup {[id |-> Cardinality(store) + 1, email_id |-> 0,
                 summary |-> summary_data.summary,
                 urgency_score |-> summary_data.urgency_score,
                 suggested_response |-> None, response_tone |-> None,
                 model_used |-> "openai"]}

\* Lines 235-241: summary_data is assigned and never used.
AfterSummary(store, summary_data) == store

\* await llm_service.summarize_email(...), with the default model, returns.
SummaryReturns(task) ==
    /\ task.pc = "llm"
    /\ mailTasks' = ReplaceIn(mailTasks, task, Advance(task))
    /\ \E answer \in CompletionAnswers :
          summaries' = AfterSummary(summaries,
                          summarize_email("openai", OPENAI_API_KEY,
                                          ANTHROPIC_API_KEY, answer).value)
    /\ UNCHANGED <<gmail_token, mailbox, emails, calVars, svcVars, resp,
                   summary_seq, sumTasks, sum_started, extVars>>

\* process_emails returns: the background task is over.
ProcessReturns(task) ==
    /\ task.pc = "done"
    /\ mailTasks' = mailTasks (-) SetToBag({task})
    /\ UNCHANGED <<gmail_token, mailbox, emails, calVars, aiVars>>

(***************************************************************************)
(* Calendar reconciliation (endpoints/calendar.py, sync_calendar_events).  *)
(***************************************************************************)
GoogleEventIds == {"X", "Y"}
Titles == {"standup", "review"}

CalItems ==
    {ge \in [google_event_id : GoogleEventIds, title : Titles, start_time : Timestamps] :
        ge.start_time = IsoTime \/ ge.title = "standup"}

RemoteCalendars ==
    {cal \in UNION {[1..n -> CalItems] : n \in 0..MaxBatch} :
        Cardinality({j \in DOMAIN cal : cal[j].start_time # IsoTime}) <= 1}

\* db.query(CalendarEvent).filter(CalendarEvent.google_event_id == id).first()
\* The session has autoflush off, so rows added and not yet committed are
\* not seen.
ExistingEvent(store, google_event_id) ==
    \E e \in store : e.google_event_id = google_event_id

\* The CalendarEvent row sync builds for a fetched event (its primary key is
\* given at the flush).
SyncedEvent(ge) ==
    [google_event_id |-> ge.google_event_id,
     title |-> ge.title,
     start_time |-> fromisoformat(ge.start_time).value,
     status |-> "confirmed",
     created_from_email |-> 0]

\* Column(String, unique=True) on CalendarEvent.google_event_id.
EventUniqueOk(store, row) ==
    row.google_event_id = None
        \/ ~ \E e \in store : e.google_event_id = row.google_event_id

\* Lines 246-268: the loop over the fetched events.  A ValueError leaves the
\* loop for the handler's except; otherwise the new rows are pending.
RECURSIVE SyncLoop(_, _, _, _)
SyncLoop(store, batch, i, pending) ==
    IF i > Len(batch) THEN [error |-> FALSE, pending |-> pending]
    ELSE IF ExistingEvent(store, batch[i].google_event_id)
    THEN SyncLoop(store, batch, i + 1, pending)
    ELSE IF fromisoformat(batch[i].start_time).error
    THEN [error |-> TRUE, pending |-> <<>>]
    ELSE SyncLoop(store, batch, i + 1, Append(pending, SyncedEvent(batch[i])))

\* Line 270, db.commit(): the pending rows are inserted in order, in one
\* transaction; a row that breaks the unique constraint fails all of it.
RECURSIVE FlushEvents(_, _, _, _)
FlushEvents(store, seq, pending, i) ==
    IF i > Len(pending) THEN [ok |-> TRUE, events |-> store, seq |-> seq]
    ELSE IF ~ EventUniqueOk(store, pending[i])
    THEN [ok |-> FALSE, events |-> store, seq |-> seq]
    ELSE FlushEvents(store \cup {[id |-> seq + 1] @@ pending[i]}, seq + 1, pending, i + 1)

CommitEvents(store, seq, pending) ==
    LET f == FlushEvents(store, seq, pending, 1)
    IN  IF f.ok THEN f ELSE [ok |-> FALSE, events |-> store, seq |-> seq]

\* The whole handler with no other writer between its loop and its commit:
\* the table, the key counter, the response status and the count reported.
sync_calendar_events(store, seq, batch) ==
    LET l == SyncLoop(store, batch, 1, <<>>)
        c == CommitEvents(store, seq, l.pending)
    IN  IF l.error \/ ~ c.ok
        THEN [events |-> store, seq |-> seq, status |-> 500, synced_count |-> 0]
        ELSE [events |-> c.events, seq |-> c.seq, status |-> 200,
              synced_count |-> Len(l.pending)]

\* 401: no user, or no calendar token.
SyncCalendarNotConnected ==
    /\ ~ calendar_token
    /\ UNCHANGED vars

\* The request up to its commit.  get_upcoming_events gives the remote list,
\* or [] when the remote call failed.
SyncCalendarBegin ==
    /\ calendar_token
    /\ BagCardinality(calRuns) < MaxSyncs
    /\ \E batch \in {gcal, <<>>} :
          LET l == SyncLoop(events, batch, 1, <<>>)
          IN  calRuns' = calRuns (+) SetToBag({
                  [batch |-> batch, pending |-> l.pending,
                   pc |-> IF l.error THEN "done" ELSE "commit",
                   status |-> IF l.error THEN 500 ELSE 0,
                   synced_count |-> Len(l.pending)]})
    /\ UNCHANGED <<mailVars, aiVars, calendar_token, gcal, events, event_seq>>

SyncCalendarCommit(run) ==
    /\ run.pc = "commit"
    /\ LET c == CommitEvents(events, event_seq, run.pending)
       IN  /\ events' = c.events
           /\ event_seq' = c.seq
           /\ calRuns' = ReplaceIn(calRuns, run,
                  [run EXCEPT !.pc = "done",
                              !.status = IF c.ok THEN 200 ELSE 500,
                              !.synced_count = IF c.ok THEN @ ELSE 0])
    /\ UNCHANGED <<mailVars, aiVars, calendar_token, gcal>>

\* The response of sync_calendar_events is sent: the request is over.
SyncCalendarReturns(run) ==
    /\ run.pc = "done"
    /\ calRuns' = calRuns (-) SetToBag({run})
    /\ UNCHANGED <<mailVars, aiVars, calendar_token, gcal, events, event_seq>>

\* The owner renames an event in the remote calendar.
RemoteRename(i) ==
    /\ i \in DOMAIN gcal
    /\ \E title \in Titles \ {gcal[i].title} :
          gcal' = [gcal EXCEPT ![i].title = title]
    /\ UNCHANGED <<mailVars, aiVars, calendar_token, events, event_seq, calRuns>>

\* No summary or reminder request was made yet.
NoResp == [op |-> "none", status |-> 0, message |-> "", email_id |-> 0,
           summary_id |-> 0, count |-> 0]

AiIdle ==
    /\ OPENAI_API_KEY = FALSE
    /\ ANTHROPIC_API_KEY = FALSE
    /\ llm = NoCall
    /\ nlp = NoAnalysis
    /\ resp = NoResp
    /\ summaries = {}
    /\ summary_seq = 0
    /\ sumTasks = EmptyBag
    /\ sum_started = 0
    /\ reminders = {}
    /\ reminder_seq = 0
    /\ extTasks = EmptyBag
    /\ ext_started = 0

(***************************************************************************)
(* Reconciliation of both stores.  The two reconcilers share no state, and *)
(* a behaviour follows a user with one provider connected.                 *)
(***************************************************************************)
Init ==
    /\ gmail_token \in BOOLEAN
    /\ calendar_token = ~ gmail_token
    /\ mailbox \in IF gmail_token THEN Mailboxes ELSE {<<>>}
    /\ gcal \in IF calendar_token THEN RemoteCalendars ELSE {<<>>}
    /\ emails = {}
    /\ mailTasks = EmptyBag
    /\ events = {}
    /\ event_seq = 0
    /\ calRuns = EmptyBag
    /\ AiIdle

Next ==
    \/ SyncEmailsNotConnected
    \/ SyncEmailsFetchError
    \/ \E max_results \in 0..MaxBatch : SyncEmails(max_results)
    \/ \E task \in BagToSet(mailTasks) : ProcessLookup(task)
    \/ \E task \in BagToSet(mailTasks) : ProcessCommit(task)
    \/ \E task \in BagToSet(mailTasks) : SummaryReturns(task)
    \/ \E task \in BagToSet(mailTasks) : ProcessReturns(task)
    \/ SyncCalendarNotConnected
    \/ SyncCalendarBegin
    \/ \E run \in BagToSet(calRuns) : SyncCalendarCommit(run)
    \/ \E run \in BagToSet(calRuns) : SyncCalendarReturns(run)
    \/ \E i \in 1..MaxBatch : RemoteRename(i)

Spec == Init /\ [][Next]_vars

(***************************************************************************)
(* Properties of the reconciliation.                                       *)
(***************************************************************************)
Tasks == BagToSet(mailTasks)
Runs == BagToSet(calRuns)

BatchIds(batch) == {batch[j].gmail_id : j \in DOMAIN batch}
EventIdsOf(store) == {e.google_event_id : e \in store}

Parses(m) == ~ fromisoformat(m.timestamp).error
FaultFree(m) == Parses(m) /\ m.db_ok

\* No item of the task's batch has failed: every one parses, and no commit
\* of the task was rejected.
NoFailure(task) ==
    task.sess = "active" /\ \A j \in DOMAIN task.batch : Parses(task.batch[j])

ProcessedFields(e) ==
    /\ e.is_processed
    /\ e.processed_at # NoTime
    /\ e.priority \in {"high", "medium", "low"}
    /\ \E c \in DOMAIN Categories : e.category = Categories[c]

C3_CountIsInserted ==
    \A task \in Tasks :
        task.pc = "done" /\ NoFailure(task) =>
            task.count = Cardinality(task.inserted)

\* C6: no two Message records share an external message id.
C6_GmailIdUnique ==
    \A e1, e2 \in emails : e1.gmail_id = e2.gmail_id => e1 = e2

\* A task lost the race for an external id: its lookup found none, another
\* task committed the id, and its own commit was rejected.
C6_Witness ==
    \E task \in Tasks :
        /\ task.sess = "inactive"
        /\ \A j \in DOMAIN task.batch : FaultFree(task.batch[j])
        /\ emails # {}

\* C7: when process_emails has finished, every well-formed item of its
\* batch is stored, whatever failed before it in the batch.
C7_LaterItemsInserted ==
    \A task \in Tasks :
        task.pc = "done" =>
            \A j \in DOMAIN task.batch :
                FaultFree(task.batch[j]) =>
                    task.batch[j].gmail_id \in GmailIdsOf(emails)

\* C8: when sync_calendar_events has answered, every fetched event that
\* parses is stored, whatever else failed in the batch.
C8_OtherEventsPersisted ==
    \A run \in Runs :
        run.pc = "done" =>
            \A j \in DOMAIN run.batch :
                Parses([timestamp |-> run.batch[j].start_time]) =>
                    run.batch[j].google_event_id \in EventIdsOf(events)

\* C9: reconciliation is insert-only: no step of process_emails or of
\* sync_calendar_events changes or removes a stored Message or
\* CalendarEvent.
C9_InsertOnly ==
    [][emails \subseteq emails' /\ events \subseteq events']_vars

\* A run has finished over a fetched message whose external id is stored
\* with other content than the fetched one.
C9_Witness ==
    \E task \in Tasks :
        /\ task.pc = "done"
        /\ \E j \in DOMAIN task.batch : \E e \in emails :
              /\ e.gmail_id = task.batch[j].gmail_id
              /\ e.text # task.batch[j].text

(***************************************************************************)
(* Summary generation (endpoints/summary.py).                              *)
(***************************************************************************)
\* The create_email_summary tasks scheduled in a behaviour.
MaxSummaryTasks == 2

\* The ids requests name: those of the stored Messages and one more.
EmailIdsAsked == 1..(Cardinality(GmailIds) + 1)
EmailIdLists == UNION {[1..n -> EmailIdsAsked] : n \in 0..MaxSummaryTasks}

\* A handler that takes no Message for summarised.
NoSummaries(store, email_id) == {}

\* db.query(EmailSummary).filter(EmailSummary.email_id == email_id)
SummariesOf(store, email_id) == {x \in store : x.email_id = email_id}

EmailFound(email_id) == \E e \in emails : e.id = email_id

\* The arguments of a create_email_summary task and its locals; requests
\* leave `model` and `response_tone` at their defaults.  `reply_failed`
\* records that the provider call of generate_reply raised.
NewSummaryTask(email_id, include_response) ==
    [email_id |-> email_id, model |-> "openai",
     include_response |-> include_response, response_tone |-> "professional",
     pc |-> "start", summary_data |-> NoData, suggested_response |-> None,
     reply_failed |-> FALSE]

RECURSIVE SeqToBag(_)
SeqToBag(seq) ==
    IF seq = <<>> THEN EmptyBag
    ELSE SetToBag({Head(seq)}) (+) SeqToBag(Tail(seq))

\* POST /summaries/{email_id}/generate
GenerateEmailSummary(email_id, include_response) ==
    LET existing == SummariesOf(summaries, email_id)
    IN  /\ ~ EmailFound(email_id) \/ existing # {} \/ sum_started < MaxSummaryTasks
        /\ IF ~ EmailFound(email_id)
           THEN /\ resp' = [NoResp EXCEPT !.op = "generate", !.status = 404,
                                          !.message = "Email not found",
                                          !.email_id = email_id]
                /\ UNCHANGED <<sumTasks, sum_started>>
           ELSE IF existing # {}
           THEN /\ \E x \in existing :
                      resp' = [NoResp EXCEPT !.op = "generate", !.status = 200,
                                             !.message = "Summary already exists",
                                             !.email_id = email_id,
                                             !.summary_id = x.id]
                /\ UNCHANGED <<sumTasks, sum_started>>
           ELSE /\ resp' = [NoResp EXCEPT !.op = "generate", !.status = 200,
                                          !.message = "Summary generation started",
                                          !.email_id = email_id]
                /\ sumTasks' = sumTasks (+)
                       SetToBag({NewSummaryTask(email_id, include_response)})
                /\ sum_started' = sum_started + 1
        /\ UNCHANGED <<mailVars, calVars, svcVars, summaries, summary_seq, extVars>>

\* POST /summaries/batch-generate
BatchGenerateSummaries(email_ids) ==
    LET asked == {email_ids[j] : j \in DOMAIN email_ids}
        found == {e \in emails : e.id \in asked}
        existing_email_ids == {x.email_id : x \in {y \in summaries : y.email_id \in asked}}
        new_email_ids == SelectSeq(email_ids, LAMBDA eid : eid \notin existing_email_ids)
    IN  /\ sum_started + Len(new_email_ids) <= MaxSummaryTasks
        /\ IF Cardinality(found) # Len(email_ids)
           THEN /\ resp' = [NoResp EXCEPT !.op = "batch", !.status = 404,
                                          !.message = "Some emails not found"]
                /\ UNCHANGED <<sumTasks, sum_started>>
           ELSE IF new_email_ids = <<>>
           THEN /\ resp' = [NoResp EXCEPT !.op = "batch", !.status = 200,
                                          !.message = "All emails already have summaries"]
                /\ UNCHANGED <<sumTasks, sum_started>>
           ELSE /\ resp' = [NoResp EXCEPT !.op = "batch", !.status = 200,
                                          !.message = "Started generating summaries",
                                          !.count = Len(new_email_ids)]
                /\ sumTasks' = sumTasks (+)
                       SeqToBag([j \in DOMAIN new_email_ids |->
                                    NewSummaryTask(new_email_ids[j], TRUE)])
                /\ sum_started' = sum_started + Len(new_email_ids)
        /\ UNCHANGED <<mailVars, calVars, svcVars, summaries, summary_seq, extVars>>

\* DELETE /summaries/{summary_id}
DeleteSummary(summary_id) ==
    /\ IF \E x \in summaries : x.id = summary_id
       THEN /\ summaries' = {x \in summaries : x.id # summary_id}
            /\ resp' = [NoResp EXCEPT !.op = "delete", !.status = 200,
                                      !.message = "Summary deleted successfully",
                                      !.summary_id = summary_id]
       ELSE /\ resp' = [NoResp EXCEPT !.op = "delete", !.status = 404,
                                      !.message = "Summary not found",
                                      !.summary_id = summary_id]
            /\ UNCHANGED summaries
    /\ UNCHANGED <<mailVars, calVars, svcVars, summary_seq, sumTasks,
                   sum_started, extVars>>

(***************************************************************************)
(* create_email_summary as a background task.                              *)
(***************************************************************************)
\* Up to `await llm_service.summarize_email`: the task ends when the Message
\* is gone.
CreateSummaryLookup(task) ==
    /\ task.pc = "start"
    /\ sumTasks' = IF EmailFound(task.email_id)
                   THEN ReplaceIn(sumTasks, task, [task EXCEPT !.pc = "summarize"])
                   ELSE sumTasks (-) SetToBag({task})
    /\ UNCHANGED <<mailVars, calVars, svcVars, resp, summaries, summary_seq,
                   sum_started, extVars>>

\* summarize_email returns; an exception of it would end the task in the
\* outer handler.
CreateSummarySummarized(task, answer) ==
    /\ task.pc = "summarize"
    /\ LET run == summarize_email(task.model, OPENAI_API_KEY, ANTHROPIC_API_KEY, answer)
       IN  sumTasks' =
             IF run.raised THEN sumTasks (-) SetToBag({task})
             ELSE ReplaceIn(sumTasks, task,
                    [task EXCEPT !.summary_data = run.value,
                                 !.pc = IF task.include_response THEN "reply" ELSE "commit"])
    /\ UNCHANGED <<mailVars, calVars, svcVars, resp, summaries, summary_seq,
                   sum_started, extVars>>

\* generate_reply returns, or raises into the handler that keeps
\* suggested_response = None.
CreateSummaryReplied(task, answer) ==
    /\ task.pc = "reply"
    /\ LET run == generate_reply(task.response_tone, OPENAI_API_KEY,
                                 ANTHROPIC_API_KEY, answer)
       IN  sumTasks' = ReplaceIn(sumTasks, task,
              [task EXCEPT !.suggested_response = IF run.raised THEN None ELSE run.value,
                           !.reply_failed = (run.called # <<>> /\ answer = "exception"),
                           !.pc = "commit"])
    /\ UNCHANGED <<mailVars, calVars, svcVars, resp, summaries, summary_seq,
                   sum_started, extVars>>

\* The EmailSummary row of the task.
NewSummary(seq, task) ==
    [id |-> seq + 1, email_id |-> task.email_id,
     summary |-> task.summary_data.summary,
     urgency_score |-> task.summary_data.urgency_score,
     suggested_response |-> task.suggested_response,
     response_tone |-> task.response_tone, model_used |-> task.model]

\* A rollback that also drops what the session committed before.
RollbackDropsCommitted(store, pending) == {}

\* db.rollback() of the session the tasks of a request share: the rows
\* commits have written stay, the pending rows of the session are dropped.
rollback(store, pending) == store \ (pending \ store)

\* summary_data.get(...) of every field, db.add(summary), db.commit(); or
\* db.rollback() when summary_data is no dict or the commit raised.
CreateSummaryCommit(task, db_ok) ==
    /\ task.pc = "commit"
    /\ IF task.summary_data.json = "object" /\ db_ok
       THEN /\ summaries' = summaries \cup {NewSummary(summary_seq, task)}
            /\ summary_seq' = summary_seq + 1
       ELSE /\ summaries' = rollback(summaries,
                                IF task.summary_data.json = "object"
                                THEN {NewSummary(summary_seq, task)} ELSE {})
            /\ UNCHANGED summary_seq
    /\ sumTasks' = sumTasks (-) SetToBag({task})
    /\ UNCHANGED <<mailVars, calVars, svcVars, resp, sum_started, extVars>>

\* Mailboxes of plain well-formed messages, one per external id.
StoredMailboxes ==
    {box \in Mailboxes :
        /\ Len(box) = Min(MaxBatch, Cardinality(GmailIds))
        /\ Cardinality(BatchIds(box)) = Len(box)
        /\ \A j \in DOMAIN box : box[j].text = PlainText /\ FaultFree(box[j])}

\* The state before any summary or reminder request: the Messages an
\* earlier reconciliation has stored, nothing in progress.
InitAi ==
    /\ gmail_token = TRUE
    /\ calendar_token = FALSE
    /\ mailbox \in StoredMailboxes
    /\ emails = process_emails({}, mailbox)
    /\ mailTasks = EmptyBag
    /\ gcal = <<>>
    /\ events = {}
    /\ event_seq = 0
    /\ calRuns = EmptyBag
    /\ OPENAI_API_KEY \in BOOLEAN
    /\ ANTHROPIC_API_KEY = FALSE
    /\ llm = NoCall
    /\ nlp = NoAnalysis
    /\ resp = NoResp
    /\ summaries = {}
    /\ summary_seq = 0
    /\ sumTasks = EmptyBag
    /\ sum_started = 0
    /\ reminders = {}
    /\ reminder_seq = 0
    /\ extTasks = EmptyBag
    /\ ext_started = 0

NextSum ==
    \/ \E email_id \in EmailIdsAsked, include_response \in BOOLEAN :
          GenerateEmailSummary(email_id, include_response)
    \/ \E email_ids \in EmailIdLists : BatchGenerateSummaries(email_ids)
    \/ \E summary_id \in 1..MaxSummaryTasks : DeleteSummary(summary_id)
    \/ \E task \in BagToSet(sumTasks) : CreateSummaryLookup(task)
    \/ \E task \in BagToSet(sumTasks), answer \in CompletionAnswers :
          CreateSummarySummarized(task, answer)
    \/ \E task \in BagToSet(sumTasks), answer \in ReplyAnswers :
          CreateSummaryReplied(task, answer)
    \/ \E task \in BagToSet(sumTasks), db_ok \in BOOLEAN : CreateSummaryCommit(task, db_ok)

SpecSum == InitAi /\ [][NextSum]_vars

\* C4: there is at most one Summary per Message.
C4_OneSummaryPerEmail ==
    \A x, y \in summaries : x.email_id = y.email_id => x = y

\* C5: a generate request for a Message that has a Summary answers "Summary
\* already exists" and changes nothing but the response, and a batch request
\* whose Messages all have a Summary schedules nothing; no step changes a
\* stored Summary (a Summary is created or deleted, never updated).
C5_ExistingSummaryNoOp ==
    [][/\ (/\ resp'.op = "generate"
            /\ EmailFound(resp'.email_id)
            /\ \E x \in summaries : x.email_id = resp'.email_id
            /\ \E include_response \in BOOLEAN :
                  GenerateEmailSummary(resp'.email_id, include_response))
           => /\ resp'.message = "Summary already exists"
              /\ \E x \in summaries :
                    x.email_id = resp'.email_id /\ resp'.summary_id = x.id
              /\ UNCHANGED <<mailVars, calVars, svcVars, sumVars, extVars>>
       /\ (/\ resp'.op = "batch"
            /\ \E email_ids \in EmailIdLists :
                  /\ \A j \in DOMAIN email_ids :
                        \E x \in summaries : x.email_id = email_ids[j]
                  /\ BatchGenerateSummaries(email_ids))
           => UNCHANGED <<mailVars, calVars, svcVars, sumVars, extVars>>
       /\ \A x \in summaries : \A y \in summaries' : x.id = y.id => x = y
      ]_vars

\* A generate request has been answered "Summary already exists" for a
\* Message whose Summary is stored.
C5_Witness ==
    /\ resp.op = "generate"
    /\ resp.message = "Summary already exists"
    /\ \E x \in summaries : x.id = resp.summary_id /\ x.email_id = resp.email_id
    /\ sumTasks = EmptyBag

\* The step is the successful commit of `task`, a create_email_summary
\* that asked for a reply, saw the provider call of the reply raise, and
\* holds usable summary data.
CommitsAfterReplyFailure(task) ==
    /\ task.pc = "commit"
    /\ task.include_response
    /\ task.reply_failed
    /\ task.summary_data.json = "object"
    /\ summaries' # summaries
    /\ CreateSummaryCommit(task, TRUE)

\* C11 (as stated): when the reply sub-call of a summary generation fails,
\* the Summary is still persisted and its suggested reply is null.
C11_ReplyFailureNullReply ==
    [][\A task \in BagToSet(sumTasks) :
          CommitsAfterReplyFailure(task) =>
              \E x \in summaries' \ summaries :
                  /\ x.email_id = task.email_id
                  /\ x.suggested_response = None]_vars

\* C11 (amended): when the provider call of the reply raised, the Summary
\* is still persisted by a successful commit, and its suggested reply is
\* the fixed reply of the requested tone.
C11_ReplyFailureKeepsSummary ==
    [][\A task \in BagToSet(sumTasks) :
          CommitsAfterReplyFailure(task) =>
              \E x \in summaries' \ summaries :
                  /\ x.email_id = task.email_id
                  /\ x.summary = task.summary_data.summary
                  /\ x.suggested_response = _fallback_reply(task.response_tone)]_vars

\* A Summary is stored whose task saw the provider call of its reply raise.
C11_Witness ==
    \E x \in summaries :
        /\ x.suggested_response = _fallback_reply(x.response_tone)
        /\ x.summary = ObjectSummary.summary

(***************************************************************************)
(* Extraction of tasks and events (llm_service.extract_tasks_and_events,   *)
(* endpoints/reminders.py).                                                *)
(***************************************************************************)
\* The process_email_for_reminders tasks scheduled in a behaviour.
MaxExtractions == 1
\* Items in the provider's answer, tasks and events together.
MaxExtracted == 2

\* What the provider answers with: the call raises ("raise"), the content is
\* not JSON ("text"), is a JSON array ("array"), or is a JSON object, with or
\* without the keys "tasks" and "events".  An item may lack its title (a
\* task), or carry a date that is no ISO 8601 string (an event), or no start
\* time.
TaskData ==
    {td \in [title : {"call Bob", None}, due_date : {None, IsoTime}] :
        td.title # None \/ td.due_date = None}

EventData ==
    {ed \in [title : {"demo"}, start_time : {None, IsoTime, "next Friday"},
             end_time : {None, LaterTime}] :
        ed.end_time = None \/ ed.start_time = IsoTime}

TaskLists == UNION {[1..n -> TaskData] : n \in 0..MaxExtracted}
EventLists == UNION {[1..n -> EventData] : n \in 0..MaxExtracted}

NoObject(kind) ==
    [kind |-> kind, has_tasks |-> FALSE, tasks |-> <<>>,
     has_events |-> FALSE, events |-> <<>>]

\* The objects with n tasks and the events that fit beside them; a key
\* may be missing where its list would be empty.
ObjectsWith(n) ==
    {[kind |-> "object", has_tasks |-> ht, tasks |-> ts,
      has_events |-> he, events |-> es] :
        ts \in [1..n -> TaskData],
        es \in UNION {[1..m -> EventData] : m \in 0..(MaxExtracted - n)},
        ht \in BOOLEAN, he \in BOOLEAN}

Answers ==
    {NoObject("raise"), NoObject("text"), NoObject("array")}
        \cup {a \in UNION {ObjectsWith(n) : n \in 0..MaxExtracted} :
                 /\ a.has_tasks \/ a.tasks = <<>>
                 /\ a.has_events \/ a.events = <<>>}

\* {"tasks": [], "events": []}
EmptyExtraction ==
    [kind |-> "object", has_tasks |-> TRUE, tasks |-> <<>>,
     has_events |-> TRUE, events |-> <<>>]

\* The provider is called only when a key is configured.
AnswersFor(key) == IF key THEN Answers ELSE {NoObject("none")}

\* llm_service.extract_tasks_and_events: the value returned to the caller.
\* With no key the function falls off its try block and returns None.
extract_tasks_and_events(key, answer) ==
    IF ~ key THEN NoObject("None")
    ELSE IF answer.kind \in {"raise", "text"} THEN EmptyExtraction
    ELSE answer

\* A Reminder for an extracted task, notified at its due date.
TaskReminderNoOffset(email_id, td) ==
    LET due_date == IF td.due_date # None
                    THEN fromisoformat(td.due_date).value
                    ELSE 1704103200 + 7 * 86400
    IN  [email_id |-> email_id, title |-> td.title, due_date |-> due_date,
         type |-> "task", priority |-> "medium", is_completed |-> FALSE,
         reminder_time |-> due_date]

\* The Reminder for an extracted task (its primary key is given at the
\* flush); datetime.utcnow() is the instant IsoTime names.
TaskReminder(email_id, td) ==
    LET due_date == IF td.due_date # None
                    THEN fromisoformat(td.due_date).value
                    ELSE 1704103200 + 7 * 86400
    IN  [email_id |-> email_id, title |-> td.title, due_date |-> due_date,
         type |-> "task", priority |-> "medium", is_completed |-> FALSE,
         reminder_time |-> due_date - 2 * 3600]

\* The Reminder that goes with an extracted event.
MeetingReminder(email_id, ed) ==
    LET start_time == fromisoformat(ed.start_time).value
    IN  [email_id |-> email_id, title |-> "Meeting", due_date |-> start_time,
         type |-> "meeting", priority |-> "medium", is_completed |-> FALSE,
         reminder_time |-> start_time - 15 * 60]

\* The CalendarEvent for an extracted event.
ExtractedEvent(email_id, ed) ==
    LET start_time == fromisoformat(ed.start_time).value
    IN  [google_event_id |-> None, title |-> ed.title,
         start_time |-> start_time,
         end_time |-> IF ed.end_time # None
                      THEN fromisoformat(ed.end_time).value
                      ELSE start_time + 3600,
         status |-> None, created_from_email |-> email_id]

\* Lines 231-256: the tasks that give a Reminder.  A due date that does not
\* parse or a missing title raises inside the item's try.
TaskOk(td) ==
    /\ td.due_date = None \/ ~ fromisoformat(td.due_date).error
    /\ td.title # None

\* A loop that builds records for an event without a start time too.
EventOkWithoutStart(ed) ==
    /\ ed.start_time = None \/ ~ fromisoformat(ed.start_time).error
    /\ ed.end_time = None \/ ~ fromisoformat(ed.end_time).error
    /\ ed.title # None

\* Lines 259-296: the events that give a CalendarEvent and a Reminder.
EventOk(ed) ==
    /\ ed.start_time # None
    /\ ~ fromisoformat(ed.start_time).error
    /\ ed.end_time = None \/ ~ fromisoformat(ed.end_time).error
    /\ ed.title # None

\* A run that ends at its first failing item.
RemindersUntilFailure(email_id, extracted) ==
    LET stop(seq, Ok(_)) ==
            IF \A j \in DOMAIN seq : Ok(seq[j]) THEN Len(seq)
            ELSE (CHOOSE j \in DOMAIN seq :
                     ~ Ok(seq[j]) /\ \A k \in 1..(j - 1) : Ok(seq[k])) - 1
        tasks == SubSeq(extracted.tasks, 1, stop(extracted.tasks, TaskOk))
        evs == IF Len(tasks) < Len(extracted.tasks) THEN <<>>
               ELSE SubSeq(extracted.events, 1,
                           stop(extracted.events,
                                LAMBDA ed : ed.start_time = None \/ EventOk(ed)))
    IN  [j \in DOMAIN tasks |-> TaskReminder(email_id, tasks[j])]
            \o [j \in DOMAIN SelectSeq(evs, EventOk) |->
                    MeetingReminder(email_id, SelectSeq(evs, EventOk)[j])]

\* The rows the task adds to its session, in order.
PendingReminders(email_id, extracted) ==
    LET tasks == SelectSeq(extracted.tasks, TaskOk)
        evs == SelectSeq(extracted.events, EventOk)
    IN  [j \in DOMAIN tasks |-> TaskReminder(email_id, tasks[j])]
            \o [j \in DOMAIN evs |-> MeetingReminder(email_id, evs[j])]

PendingEvents(email_id, extracted) ==
    LET evs == SelectSeq(extracted.events, EventOk)
    IN  [j \in DOMAIN evs |-> ExtractedEvent(email_id, evs[j])]

\* Rows numbered from 1 whatever the table holds.
WithSameIds(rows, seq) == {[id |-> j] @@ rows[j] : j \in DOMAIN rows}

\* The autoincrement primary keys the flush gives the rows of a session.
WithIds(rows, seq) == {[id |-> seq + j] @@ rows[j] : j \in DOMAIN rows}

\* The provider call raised, was not made for want of a key, or answered
\* with something else than an object with the keys "tasks" and "events".
Degraded(key, answer) ==
    \/ ~ key
    \/ answer.kind # "object"
    \/ ~ answer.has_tasks
    \/ ~ answer.has_events

\* The items of `extracted` whose records the task fails to build.
Failing(extracted) ==
    Len(extracted.tasks) - Len(SelectSeq(extracted.tasks, TaskOk))
        + Len(SelectSeq(extracted.events, LAMBDA ed : ed.start_time # None))
        - Len(SelectSeq(extracted.events, EventOk))

\* A commit that cannot fail.
PersistedAnyway(extracted, db_ok) == extracted.kind = "object"

\* db.commit() is reached (extracted is a dict) and succeeds.
Persisted(extracted, db_ok) == extracted.kind = "object" /\ db_ok

\* A process_email_for_reminders task: its argument, its position, its local
\* `extracted`.  `degraded`, `failed`, `built` and `outcome` record what
\* happened to it: the provider call degraded, the number of items whose
\* records it failed to build, the number of rows it built, and how it ended.
NewExtraction(email_id) ==
    [email_id |-> email_id, pc |-> "start", extracted |-> NoObject("pending"),
     degraded |-> FALSE, failed |-> 0, built |-> 0, outcome |-> None]

\* POST /reminders/extract-from-email/{email_id}
ExtractRemindersFromEmail(email_id) ==
    /\ IF ~ EmailFound(email_id)
       THEN /\ resp' = [NoResp EXCEPT !.op = "extract", !.status = 404,
                                      !.message = "Email not found",
                                      !.email_id = email_id]
            /\ UNCHANGED <<extTasks, ext_started>>
       ELSE /\ resp' = [NoResp EXCEPT !.op = "extract", !.status = 200,
                                      !.message = "Processing email for reminders and events",
                                      !.email_id = email_id]
            /\ extTasks' = extTasks (+) SetToBag({NewExtraction(email_id)})
            /\ ext_started' = ext_started + 1
    /\ UNCHANGED <<mailVars, calVars, svcVars, sumVars, reminders, reminder_seq>>

\* process_email_for_reminders up to `await extract_tasks_and_events`; the
\* task returns when the Message is gone.
RemindersTaskStarts(task) ==
    /\ task.pc = "start"
    /\ extTasks' = ReplaceIn(extTasks, task,
                      IF EmailFound(task.email_id)
                      THEN [task EXCEPT !.pc = "extract"]
                      ELSE [task EXCEPT !.pc = "done", !.outcome = "returned"])
    /\ UNCHANGED <<mailVars, calVars, svcVars, resp, sumVars, reminders,
                   reminder_seq, ext_started>>

\* The await returns.  From here to its end the task does not await: the
\* event loop runs no other task meanwhile.
RemindersTaskExtracted(task, answer) ==
    /\ task.pc = "extract"
    /\ \A other \in BagToSet(extTasks) : other.pc # "build"
    /\ extTasks' = ReplaceIn(extTasks, task,
          [task EXCEPT !.pc = "build",
                       !.extracted = extract_tasks_and_events(OPENAI_API_KEY, answer),
                       !.degraded = Degraded(OPENAI_API_KEY, answer)])
    /\ UNCHANGED <<mailVars, calVars, svcVars, resp, sumVars, reminders,
                   reminder_seq, ext_started>>

\* The task runs to its end: it builds the rows and commits them all, or
\* rolls back when `extracted` is no dict or the commit raised.
RemindersTaskFinishes(task, db_ok) ==
    /\ task.pc = "build"
    /\ LET rs == PendingReminders(task.email_id, task.extracted)
           es == PendingEvents(task.email_id, task.extracted)
           committed == Persisted(task.extracted, db_ok)
       IN  /\ IF committed
              THEN /\ reminders' = reminders \cup WithIds(rs, reminder_seq)
                   /\ reminder_seq' = reminder_seq + Len(rs)
                   /\ events' = events \cup WithIds(es, event_seq)
                   /\ event_seq' = event_seq + Len(es)
              ELSE UNCHANGED <<reminders, reminder_seq, events, event_seq>>
           /\ extTasks' = ReplaceIn(extTasks, task,
                 [task EXCEPT !.pc = "done",
                              !.extracted = NoObject("pending"),
                              !.failed = Failing(task.extracted),
                              !.built = Len(rs) + Len(es),
                              !.outcome = IF committed THEN "committed"
                                          ELSE "rolled back"])
    /\ UNCHANGED <<mailVars, calendar_token, gcal, calRuns, svcVars, resp,
                   sumVars, ext_started>>

NextExt ==
    \/ \E email_id \in EmailIdsAsked :
          ext_started < MaxExtractions /\ ExtractRemindersFromEmail(email_id)
    \/ \E task \in BagToSet(extTasks) : RemindersTaskStarts(task)
    \/ \E task \in BagToSet(extTasks) :
          \E answer \in AnswersFor(OPENAI_API_KEY) :
              RemindersTaskExtracted(task, answer)
    \/ \E task \in BagToSet(extTasks), db_ok \in BOOLEAN :
          RemindersTaskFinishes(task, db_ok)

SpecExt == InitAi /\ [][NextExt]_vars

\* The extraction tasks, and the step that ends `task` with a commit.
Extractions == BagToSet(extTasks)

Commits(task) ==
    /\ task.pc = "build"
    /\ task.extracted.kind = "object"
    /\ RemindersTaskFinishes(task, TRUE)

\* C10: whenever the provider call throws, is unavailable or answers with
\* another structure than the expected one, extract_tasks_and_events returns
\* {tasks: [], events: []} and the task creates no Reminder and no
\* CalendarEvent.
C10_DegradesGracefully ==
    [][\A task \in Extractions, db_ok \in BOOLEAN :
          (/\ task.pc = "build"
           /\ task.degraded
           /\ RemindersTaskFinishes(task, db_ok))
          => /\ task.extracted = EmptyExtraction
             /\ reminders' = reminders
             /\ events' = events
      ]_vars

\* The items whose records can be built: a title, and dates that are
\* absent or ISO 8601; an event needs its start time.
WellFormedTask(td) == td.title # None /\ td.due_date \in {None, IsoTime}

WellFormedEvent(ed) ==
    /\ ed.title # None
    /\ ed.start_time = IsoTime
    /\ ed.end_time \in {None, LaterTime}

\* The rows a step adds.
NewReminders == reminders' \ reminders
NewEvents == events' \ events
NewOfType(type) == {r \in NewReminders : r.type = type}

\* C15 (as stated): a successful run creates exactly one Reminder for each
\* returned task, and for each returned event, those without a start time
\* included, one CalendarEvent that refers to the Message and one Reminder
\* of type meeting; nothing else.  Stated for the runs none of whose items
\* fails.
C15_OneRecordPerItem ==
    [][\A task \in Extractions :
          (/\ task.pc = "build"
           /\ Failing(task.extracted) = 0
           /\ Commits(task))
          => /\ Cardinality(NewOfType("task")) = Len(task.extracted.tasks)
             /\ Cardinality(NewEvents) = Len(task.extracted.events)
             /\ Cardinality(NewOfType("meeting")) = Len(task.extracted.events)
             /\ Cardinality(NewReminders) =
                   Len(task.extracted.tasks) + Len(task.extracted.events)
             /\ \A e \in NewEvents : e.created_from_email = task.email_id
      ]_vars

\* C15 (amended): a successful run creates exactly one Reminder for each
\* returned task that is well formed, and for each returned event that is
\* well formed and has a start time one CalendarEvent that refers to the
\* Message and one Reminder of type meeting; nothing else.
C15_OneRecordPerUsableItem ==
    [][\A task \in Extractions :
          (task.pc = "build" /\ Commits(task))
          => LET tasks == SelectSeq(task.extracted.tasks, WellFormedTask)
                 evs == SelectSeq(task.extracted.events, WellFormedEvent)
             IN  /\ Cardinality(NewOfType("task")) = Len(tasks)
                 /\ Cardinality(NewEvents) = Len(evs)
                 /\ Cardinality(NewOfType("meeting")) = Len(evs)
                 /\ Cardinality(NewReminders) = Len(tasks) + Len(evs)
                 /\ \A e \in NewEvents : e.created_from_email = task.email_id
                 /\ \A r \in NewReminders : r.email_id = task.email_id
      ]_vars

\* A run has committed a task Reminder, a CalendarEvent and its Reminder.
C15_Witness ==
    \E task \in Extractions :
        /\ task.outcome = "committed"
        /\ \E r \in reminders : r.type = "task" /\ r.email_id = task.email_id
        /\ \E r \in reminders : r.type = "meeting" /\ r.email_id = task.email_id
        /\ \E e \in events : e.created_from_email = task.email_id

\* C16: a task Reminder is due at the extractor's due date, or 7 days from
\* now when there is none, and notified 2 hours before; an event ends at
\* the extractor's end time, or 1 hour after its start when there is none;
\* its Reminder is due at the start and notified 15 minutes before.
C16_DerivedTimes ==
    [][\A task \in Extractions :
          (task.pc = "build" /\ Commits(task))
          => /\ \A j \in DOMAIN task.extracted.tasks :
                   LET td == task.extracted.tasks[j]
                   IN  WellFormedTask(td) =>
                          \E r \in NewOfType("task") :
                              /\ r.title = td.title
                              /\ r.due_date = IF td.due_date = None
                                              THEN 1704103200 + 7 * 24 * 3600
                                              ELSE fromisoformat(td.due_date).value
                              /\ r.reminder_time = r.due_date - 2 * 3600
             /\ \A j \in DOMAIN task.extracted.events :
                   LET ed == task.extracted.events[j]
                   IN  WellFormedEvent(ed) =>
                          /\ \E e \in NewEvents :
                                /\ e.start_time = fromisoformat(ed.start_time).value
                                /\ e.end_time = IF ed.end_time = None
                                                THEN e.start_time + 3600
                                                ELSE fromisoformat(ed.end_time).value
                          /\ \E r \in NewOfType("meeting") :
                                /\ r.due_date = fromisoformat(ed.start_time).value
                                /\ r.reminder_time = r.due_date - 15 * 60
             /\ \A r \in NewOfType("task") : r.reminder_time = r.due_date - 2 * 3600
             /\ \A r \in NewOfType("meeting") : r.reminder_time = r.due_date - 15 * 60
      ]_vars

\* A task Reminder with the default due date and an event with the end time
\* the extractor gave are stored.
C16_Witness ==
    /\ \E r \in reminders :
          r.type = "task" /\ r.due_date = 1704103200 + 7 * 24 * 3600
    /\ \E e \in events : e.end_time = fromisoformat(LaterTime).value

\* C17: a run in which the records of an item fail to build still creates
\* and commits the records of every well-formed task and event of the same
\* answer, wherever the failing item stands.
C17_FailureSkipsOnlyItem ==
    [][\A task \in Extractions :
          (/\ task.pc = "build"
           /\ Failing(task.extracted) > 0
           /\ Commits(task))
          => /\ \A j \in DOMAIN task.extracted.tasks :
                   WellFormedTask(task.extracted.tasks[j]) =>
                       \E r \in NewOfType("task") :
                           r.title = task.extracted.tasks[j].title
             /\ Cardinality(NewOfType("task")) =
                   Len(SelectSeq(task.extracted.tasks, WellFormedTask))
             /\ Cardinality(NewEvents) =
                   Len(SelectSeq(task.extracted.events, WellFormedEvent))
             /\ Cardinality(NewOfType("meeting")) = Cardinality(NewEvents)
             /\ NewReminders \subseteq reminders'
      ]_vars

\* A run in which an item failed has committed a record of another item.
C17_Witness ==
    \E task \in Extractions :
        /\ task.outcome = "committed"
        /\ task.failed > 0
        /\ task.built > 0
        /\ \E r \in reminders : r.email_id = task.email_id

\* C18: Reminders and CalendarEvents change only by the commit that ends a
\* run, and a run that ends otherwise (extracted unusable, commit error)
\* leaves both stores and their key sequences as they were.
C18_AtomicPersist ==
    [][/\ (reminders' # reminders \/ events' # events)
            => \E task \in Extractions : task.pc = "build" /\ Commits(task)
       /\ \A task \in Extractions :
             (/\ task.pc = "build"
              /\ \/ RemindersTaskFinishes(task, FALSE)
                 \/ task.extracted.kind # "object" /\ RemindersTaskFinishes(task, TRUE))
             => UNCHANGED <<reminders, reminder_seq, events, event_seq>>
      ]_vars

\* A run that had built rows was rolled back, and the stores are empty.
C18_Witness ==
    \E task \in Extractions :
        /\ task.outcome = "rolled back"
        /\ task.built > 0
        /\ reminders = {}
        /\ events = {}

(***************************************************************************)
(* Calls of the LLM service on their own: every provider name, tone, key   *)
(* configuration and provider outcome.  `llm` is the log of the calls, the *)
(* last of which may still await its provider.                             *)
(***************************************************************************)
\* Calls of the LLM service in a behaviour.
MaxCalls == 2

\* No Message, event, summary or reminder is stored and no task runs.
NothingStored ==
    /\ gmail_token = FALSE
    /\ calendar_token = FALSE
    /\ mailbox = <<>>
    /\ gcal = <<>>
    /\ emails = {}
    /\ mailTasks = EmptyBag
    /\ events = {}
    /\ event_seq = 0
    /\ calRuns = EmptyBag
    /\ resp = NoResp
    /\ summaries = {}
    /\ summary_seq = 0
    /\ sumTasks = EmptyBag
    /\ sum_started = 0
    /\ reminders = {}
    /\ reminder_seq = 0
    /\ extTasks = EmptyBag
    /\ ext_started = 0

InitLlm ==
    /\ OPENAI_API_KEY \in BOOLEAN
    /\ ANTHROPIC_API_KEY \in BOOLEAN
    /\ llm = NoCall
    /\ nlp = NoAnalysis
    /\ NothingStored

NewCall(fn, model, tone) ==
    [fn |-> fn, model |-> model, tone |-> tone, pc |-> "called",
     answer |-> None, raised |-> FALSE, called |-> <<>>,
     data |-> NoData, reply |-> None]

\* The last call of the log; a returned call of no function before any.
LastCall ==
    IF llm = <<>> THEN [NewCall("none", None, None) EXCEPT !.pc = "returned"]
    ELSE llm[Len(llm)]

LlmIdle == LastCall.pc = "returned"

\* await llm_service.summarize_email(email_content, model)
SummarizeEmailCalled(model) ==
    /\ LlmIdle
    /\ Len(llm) < MaxCalls
    /\ llm' = Append(llm, NewCall("summarize_email", model, None))
    /\ UNCHANGED <<mailVars, calVars, OPENAI_API_KEY, ANTHROPIC_API_KEY, nlp,
                   resp, sumVars, extVars>>

SummarizeEmailReturns(answer) ==
    /\ ~ LlmIdle
    /\ LastCall.fn = "summarize_email"
    /\ LET run == summarize_email(LastCall.model, OPENAI_API_KEY,
                                  ANTHROPIC_API_KEY, answer)
       IN  llm' = [llm EXCEPT ![Len(llm)] =
                      [@ EXCEPT !.pc = "returned", !.answer = answer,
                                !.raised = run.raised, !.called = run.called,
                                !.data = run.value]]
    /\ UNCHANGED <<mailVars, calVars, OPENAI_API_KEY, ANTHROPIC_API_KEY, nlp,
                   resp, sumVars, extVars>>

\* await llm_service.generate_reply(email_content, tone=tone)
GenerateReplyCalled(tone) ==
    /\ LlmIdle
    /\ Len(llm) < MaxCalls
    /\ llm' = Append(llm, NewCall("generate_reply", None, tone))
    /\ UNCHANGED <<mailVars, calVars, OPENAI_API_KEY, ANTHROPIC_API_KEY, nlp,
                   resp, sumVars, extVars>>

GenerateReplyReturns(answer) ==
    /\ ~ LlmIdle
    /\ LastCall.fn = "generate_reply"
    /\ LET run == generate_reply(LastCall.tone, OPENAI_API_KEY,
                                 ANTHROPIC_API_KEY, answer)
       IN  llm' = [llm EXCEPT ![Len(llm)] =
                      [@ EXCEPT !.pc = "returned", !.answer = answer,
                                !.raised = run.raised, !.called = run.called,
                                !.reply = run.value]]
    /\ UNCHANGED <<mailVars, calVars, OPENAI_API_KEY, ANTHROPIC_API_KEY, nlp,
                   resp, sumVars, extVars>>

NextLlm ==
    \/ \E model \in ModelNames : SummarizeEmailCalled(model)
    \/ \E answer \in CompletionAnswers : SummarizeEmailReturns(answer)
    \/ \E tone \in Tones : GenerateReplyCalled(tone)
    \/ \E answer \in ReplyAnswers : GenerateReplyReturns(answer)

SpecLlm == InitLlm /\ [][NextLlm]_vars

\* The calls of `fn` that have returned or raised.
Returned(fn) ==
    {llm[i] : i \in {j \in DOMAIN llm : llm[j].fn = fn /\ llm[j].pc = "returned"}}

\* The key of the provider `model` names is set.
Configured(model) ==
    \/ model = "openai" /\ OPENAI_API_KEY
    \/ model = "anthropic" /\ ANTHROPIC_API_KEY

\* C12: whenever the provider call fails or no provider is configured,
\* generate_reply returns the fixed reply of the tone (the professional one
\* for an unknown tone): never an absent reply, never an exception.
C12_ReplyFallsBackToTemplate ==
    \A call \in Returned("generate_reply") :
        (call.answer = "exception" \/ ~ (OPENAI_API_KEY \/ ANTHROPIC_API_KEY)) =>
            /\ ~ call.raised
            /\ call.reply # None
            /\ call.reply = _fallback_reply(call.tone)
            /\ call.tone \notin {"friendly", "brief"} =>
                  call.reply = _fallback_reply("professional")

\* C13: summarize_email never raises; it returns the parsed answer of the
\* provider when the named provider is configured and answered with JSON,
\* the fixed degraded default otherwise; and it awaits no provider but the
\* one the caller named.
C13_SummarizeNeverFails ==
    \A call \in Returned("summarize_email") :
        /\ ~ call.raised
        /\ call.data = IF Configured(call.model) /\ call.answer = "object"
                       THEN ObjectSummary
                       ELSE IF Configured(call.model) /\ call.answer = "array"
                       THEN ArraySummary
                       ELSE _fallback_summary
        /\ _fallback_summary.sentiment = "neutral"
        /\ _fallback_summary.urgency_score = 50
        /\ _fallback_summary.action_items = <<>>
        /\ _fallback_summary.entities = <<>>
        /\ \A j \in DOMAIN call.called : call.called[j] = call.model

\* With both keys set, a call naming "anthropic" has returned the default
\* after its provider raised, and another has returned a parsed answer.
C13_Witness ==
    /\ OPENAI_API_KEY /\ ANTHROPIC_API_KEY
    /\ \E call \in Returned("summarize_email") :
          /\ call.model = "anthropic"
          /\ call.answer = "exception"
          /\ call.called = <<"anthropic">>
          /\ call.data = _fallback_summary
    /\ \E call \in Returned("summarize_email") : call.data = ObjectSummary

\* C14: when the caller names a provider whose key is not set, the call
\* yields a configuration error the caller can tell from a successful and
\* from a degraded result, and no provider is called.
C14_MissingCredentialSurfaced ==
    \A call \in Returned("summarize_email") :
        (call.model \in {"openai", "anthropic"} /\ ~ Configured(call.model)) =>
            /\ call.raised \/ call.data \notin {ObjectSummary, ArraySummary, _fallback_summary}
            /\ call.called = <<>>

(***************************************************************************)
(* Local calendar events (endpoints/calendar.py: create_event,             *)
(* update_event, delete_event) and their mirror in the remote calendar     *)
(* (services/calendar_service.py).  A handler does not await: each is one  *)
(* step.  `remote` is what the remote call does when the handler makes it. *)
(***************************************************************************)
\* CalendarEvents created in a behaviour.
MaxEvents == 2

\* The remote call succeeds; raises HttpError, which the service answers
\* with None or False; raises another exception, which the handler logs;
\* or takes effect remotely and then raises ("lost").
RemoteOutcomes == {"ok", "HttpError", "exception", "lost"}

\* The id the remote calendar gives to the mirror of local event `id`.
RemoteId(id) == "evt" \o ToString(id)

NoEvent ==
    [id |-> 0, google_event_id |-> None, title |-> None,
     start_time |-> NoTime, end_time |-> NoTime, status |-> None,
     created_from_email |-> 0]

CalResp(op, status, event_id, made, remote, title, event) ==
    [op |-> op, status |-> status, event_id |-> event_id,
     remote |-> IF made THEN remote ELSE "none", title |-> title,
     event |-> event]

\* The CalendarEvent row of a create request.
LocalEvent(seq, title) ==
    [id |-> seq + 1, google_event_id |-> None, title |-> title,
     start_time |-> fromisoformat(IsoTime).value,
     end_time |-> fromisoformat(LaterTime).value,
     status |-> "confirmed", created_from_email |-> 0]

\* POST /events
CreateEvent(title, remote) ==
    LET event == LocalEvent(event_seq, title)
        made == calendar_token
        google_event == made /\ remote = "ok"
        stored == IF google_event
                  THEN [event EXCEPT !.google_event_id = RemoteId(event.id)]
                  ELSE event
    IN  /\ event_seq < MaxEvents
        /\ events' = events \cup {stored}
        /\ event_seq' = event_seq + 1
        /\ gcal' = IF made /\ remote \in {"ok", "lost"}
                   THEN Append(gcal, [google_event_id |-> RemoteId(event.id),
                                      title |-> title, start_time |-> IsoTime])
                   ELSE gcal
        /\ resp' = CalResp("create_event", 200, stored.id, made, remote, title, stored)
        /\ UNCHANGED <<mailVars, calendar_token, calRuns, svcVars, sumVars, extVars>>

\* A handler that gives up the local change when the remote call failed.
KeepUnlessRemoteOk(store, event, made, remote) ==
    IF made /\ remote # "ok" THEN store ELSE store \ {event}

\* db.delete(event); db.commit()
DeleteLocal(store, event, made, remote) == store \ {event}

\* calendar_service.update_event / delete_event on the mirror of `event`.
RemoteAfter(op, event, title, done) ==
    IF ~ done THEN gcal
    ELSE IF op = "delete_event"
    THEN SelectSeq(gcal, LAMBDA ge : ge.google_event_id # event.google_event_id)
    ELSE [j \in DOMAIN gcal |->
             IF gcal[j].google_event_id = event.google_event_id /\ title # None
             THEN [gcal[j] EXCEPT !.title = title]
             ELSE gcal[j]]

\* PUT /events/{event_id}; `title` is None when the request leaves it out.
UpdateEvent(event_id, title, remote) ==
    IF \A e \in events : e.id # event_id
    THEN /\ resp' = CalResp("update_event", 404, event_id, FALSE, remote, title, NoEvent)
         /\ UNCHANGED <<mailVars, calVars, svcVars, sumVars, extVars>>
    ELSE LET event == CHOOSE e \in events : e.id = event_id
             updated == IF title # None THEN [event EXCEPT !.title = title] ELSE event
             made == event.google_event_id # None /\ calendar_token
         IN  /\ events' = (events \ {event}) \cup {updated}
             /\ gcal' = RemoteAfter("update_event", event, title,
                                    made /\ remote \in {"ok", "lost"})
             /\ resp' = CalResp("update_event", 200, event_id, made, remote, title, updated)
             /\ UNCHANGED <<mailVars, calendar_token, event_seq, calRuns, svcVars,
                            sumVars, extVars>>

\* DELETE /events/{event_id}
DeleteEvent(event_id, remote) ==
    IF \A e \in events : e.id # event_id
    THEN /\ resp' = CalResp("delete_event", 404, event_id, FALSE, remote, None, NoEvent)
         /\ UNCHANGED <<mailVars, calVars, svcVars, sumVars, extVars>>
    ELSE LET event == CHOOSE e \in events : e.id = event_id
             made == event.google_event_id # None /\ calendar_token
         IN  /\ gcal' = RemoteAfter("delete_event", event, None,
                                    made /\ remote \in {"ok", "lost"})
             /\ events' = DeleteLocal(events, event, made, remote)
             /\ resp' = CalResp("delete_event", 200, event_id, made, remote, None, event)
             /\ UNCHANGED <<mailVars, calendar_token, event_seq, calRuns, svcVars,
                            sumVars, extVars>>

\* A user with or without a calendar credential, and no event yet.
InitCal ==
    /\ gmail_token = FALSE
    /\ calendar_token \in BOOLEAN
    /\ mailbox = <<>>
    /\ gcal = <<>>
    /\ emails = {}
    /\ mailTasks = EmptyBag
    /\ events = {}
    /\ event_seq = 0
    /\ calRuns = EmptyBag
    /\ AiIdle

NextCal ==
    \/ \E title \in Titles, remote \in RemoteOutcomes : CreateEvent(title, remote)
    \/ \E event_id \in 1..MaxEvents, title \in Titles \cup {None},
          remote \in RemoteOutcomes : UpdateEvent(event_id, title, remote)
    \/ \E event_id \in 1..MaxEvents, remote \in RemoteOutcomes :
          DeleteEvent(event_id, remote)

SpecCal == InitCal /\ [][NextCal]_vars

\* C19: whatever the remote call does, and with or without a credential,
\* create_event stores and returns the local event, update_event applies
\* the fields of the request to it, delete_event removes it; and a local
\* event carries an external id only from the step in which the remote
\* create succeeded.
C19_LocalLifecycleIndependent ==
    [][/\ resp'.op = "create_event" =>
             /\ resp'.status = 200
             /\ resp'.event.title = resp'.title
             /\ resp'.event.id \notin {e.id : e \in events}
             /\ events' = events \cup {resp'.event}
             /\ resp'.event.google_event_id # None <=> resp'.remote = "ok"
       /\ (resp'.op = "update_event" /\ \E e \in events : e.id = resp'.event_id) =>
             /\ resp'.status = 200
             /\ resp'.event \in events'
             /\ resp'.event.id = resp'.event_id
             /\ resp'.title # None => resp'.event.title = resp'.title
             /\ {e.id : e \in events'} = {e.id : e \in events}
       /\ (resp'.op = "delete_event" /\ \E e \in events : e.id = resp'.event_id) =>
             /\ resp'.status = 200
             /\ events' = {e \in events : e.id # resp'.event_id}
       /\ \A e \in events' :
             e.google_event_id # None =>
                \/ \E old \in events :
                      old.id = e.id /\ old.google_event_id = e.google_event_id
                \/ /\ resp'.op = "create_event"
                   /\ resp'.remote = "ok"
                   /\ calendar_token
                   /\ \E j \in DOMAIN gcal' :
                         gcal'[j].google_event_id = e.google_event_id
      ]_vars

\* An event with a remote mirror was deleted locally although the remote
\* delete failed, and another event was created while the remote create
\* failed.
C19_Witness ==
    /\ resp.op = "delete_event"
    /\ resp.status = 200
    /\ resp.remote = "HttpError"
    /\ resp.event.google_event_id # None
    /\ \E j \in DOMAIN gcal : gcal[j].google_event_id = resp.event.google_event_id
    /\ \A e \in events : e.id # resp.event_id
    /\ \E e \in events : e.google_event_id = None

(***************************************************************************)
(* The analyzer on every text (services/nlp_service.py), and the Message   *)
(* rows process_emails stores from its analysis.  Scores are in tenths:    *)
(* 70 is the score 7.0.                                                    *)
(***************************************************************************)
\* Messages analysed and stored in a behaviour.
MaxAnalyses == 1
\* Keywords and time patterns a text contains, all classes together.
MaxHits == 3
\* Question marks in a text.
MaxQuestionMarks == 5

\* self.urgency_keywords and time_patterns: a keyword or a pattern counts
\* once, however often the text contains it.
HighKeywords == {"urgent", "asap", "immediately", "emergency", "critical",
                 "deadline", "today"}
MediumKeywords == {"soon", "this week", "important", "please", "need", "required"}
LowKeywords == {"when you can", "no rush", "fyi", "for your information"}
TimePatterns == {"by today", "deadline today", "need asap", "meeting today"}

\* The texts, as the analyzer reads them.  The patterns "deadline.*" and
\* "need.*" only match a text that contains keywords.
Texts ==
    {[hi |-> hi, med |-> med, lo |-> lo, pat |-> pat, q |-> q,
      work |-> 0, personal |-> 0, promotional |-> 0, social |-> 0] :
        <<hi, med, lo, pat, q>> \in
            {t \in (0..Min(MaxHits, Cardinality(HighKeywords)))
                   \X (0..Min(MaxHits, Cardinality(MediumKeywords)))
                   \X (0..Min(MaxHits, Cardinality(LowKeywords)))
                   \X (0..Min(MaxHits, Cardinality(TimePatterns)))
                   \X (0..MaxQuestionMarks) :
                /\ t[1] + t[2] + t[3] + t[4] <= MaxHits
                /\ t[4] >= 3 => t[1] >= 1
                /\ t[4] = 4 => (t[1] >= 2 /\ t[2] >= 1)}}

\* A fetched message whose subject and body make up `text`.
Fetched(gmail_id, text) ==
    [gmail_id |-> gmail_id, text |-> text, timestamp |-> IsoTime, db_ok |-> TRUE]

\* process_emails on one fetched message: the analysis of a message that is
\* not stored yet, and the row stored from it.
AnalyzeAndStore(gmail_id, text) ==
    LET analysis == analyze_email(text)
    IN  /\ Cardinality(emails) < MaxAnalyses
        /\ ~ ExistingEmail(emails, gmail_id)
        /\ nlp' = [text |-> text, urgency_score |-> analysis.urgency_score,
                   priority |-> analysis.priority, category |-> analysis.category]
        /\ emails' = process_emails(emails, <<Fetched(gmail_id, text)>>)
        /\ UNCHANGED <<gmail_token, mailbox, mailTasks, calVars, OPENAI_API_KEY,
                       ANTHROPIC_API_KEY, llm, resp, sumVars, extVars>>

InitNlp ==
    /\ OPENAI_API_KEY = FALSE
    /\ ANTHROPIC_API_KEY = FALSE
    /\ llm = NoCall
    /\ nlp = NoAnalysis
    /\ NothingStored

NextNlp == \E gmail_id \in GmailIds, text \in Texts : AnalyzeAndStore(gmail_id, text)

SpecNlp == InitNlp /\ [][NextNlp]_vars

\* C20: the urgency score of every text lies in [1.0, 10.0]; the priority
\* is high for a score of 7.0 or more, medium from 4.0 up to but not
\* including 7.0, low below 4.0; and the priority stored on a Message is
\* the one its stored urgency score gives.
C20_UrgencyBoundedPriorityByScore ==
    /\ nlp # NoAnalysis =>
          /\ nlp.urgency_score \in 10..100
          /\ nlp.priority = "high" <=> nlp.urgency_score >= 70
          /\ nlp.priority = "medium" <=>
                (nlp.urgency_score >= 40 /\ nlp.urgency_score < 70)
          /\ nlp.priority = "low" <=> nlp.urgency_score < 40
    /\ \A e \in emails :
          /\ e.urgency_score \in 10..100
          /\ e.priority = "high" <=> e.urgency_score >= 70
          /\ e.priority = "medium" <=> (e.urgency_score >= 40 /\ e.urgency_score < 70)
          /\ e.priority = "low" <=> e.urgency_score < 40

\* A Message whose text scores exactly 7.0 is stored as high.
C20_Witness ==
    /\ nlp.urgency_score = 70
    /\ \E e \in emails :
          e.text = nlp.text /\ e.urgency_score = 70 /\ e.priority = "high"

(***************************************************************************)
(* The category of a text (NLPService.classify_category), on texts that    *)
(* differ in their keyword hits per category.                              *)
(***************************************************************************)
\* Keywords of one category a text contains.
MaxCategoryHits == 2

WorkKeywords == {"meeting", "project", "deadline", "report", "client",
                 "business", "office"}
PersonalKeywords == {"family", "friend", "personal", "vacation", "birthday",
                     "wedding"}
PromotionalKeywords == {"sale", "discount", "offer", "promotion", "deal", "buy",
                        "shop"}
SocialKeywords == {"linkedin", "facebook", "twitter", "social", "network",
                   "connect"}

CategoryTexts ==
    {[PlainText EXCEPT !.work = t[1], !.personal = t[2],
                       !.promotional = t[3], !.social = t[4]] :
        t \in (0..Min(MaxCategoryHits, Cardinality(WorkKeywords)))
              \X (0..Min(MaxCategoryHits, Cardinality(PersonalKeywords)))
              \X (0..Min(MaxCategoryHits, Cardinality(PromotionalKeywords)))
              \X (0..Min(MaxCategoryHits, Cardinality(SocialKeywords)))}

NextCat ==
    \E gmail_id \in GmailIds, text \in CategoryTexts : AnalyzeAndStore(gmail_id, text)

SpecCat == InitNlp /\ [][NextCat]_vars

\* The category the counts of a text call for: the first of work, personal,
\* promotional, social that no other category exceeds.
C21_Expected(text, category) ==
    /\ category \in {"work", "personal", "promotional", "social"}
    /\ category = "work" <=>
          (text.work >= text.personal /\ text.work >= text.promotional
             /\ text.work >= text.social)
    /\ category = "personal" <=>
          (text.personal > text.work /\ text.personal >= text.promotional
             /\ text.personal >= text.social)
    /\ category = "promotional" <=>
          (text.promotional > text.work /\ text.promotional > text.personal
             /\ text.promotional >= text.social)
    /\ category = "social" <=>
          (text.social > text.work /\ text.social > text.personal
             /\ text.social > text.promotional)

\* C21: the category of every text is one of work, personal, promotional,
\* social: the one with the most keyword hits, the first of them in that
\* order on a tie, and work when no keyword is hit; the stored Message
\* carries that category.
C21_CategoryIsFirstArgmax ==
    /\ nlp # NoAnalysis => C21_Expected(nlp.text, nlp.category)
    /\ \A e \in emails : C21_Expected(e.text, e.category)

\* A text with as many personal as social hits, and fewer of the others,
\* was classified personal.
C21_Witness ==
    /\ nlp.text.personal = nlp.text.social
    /\ nlp.text.personal > nlp.text.work
    /\ nlp.text.personal > nlp.text.promotional
    /\ nlp.category = "personal"
    /\ \E e \in emails : e.text = nlp.text /\ e.category = "personal"

(***************************************************************************)
(* GET /events/free-time without a calendar credential                     *)
(* (endpoints/calendar.py: find_free_time, lines 287-329).  Times are      *)
(* seconds; Midnight is 00:00 of the Monday on which IsoTime falls.        *)
(***************************************************************************)
\* The largest days_ahead of a request.
MaxDaysAhead == 2
\* CalendarEvents in the store.
MaxBusy == 2

Midnight == fromisoformat(IsoTime).value - 10 * 3600

\* The time `minutes` after 00:00 of day `day` (day 0 is a Monday).
At(day, minutes) == Midnight + day * 86400 + minutes * 60

\* date.weekday(): 0 is Monday.
weekday(date) == date % 7

\* datetime.date(), as a number of days.
DateOf(t) == (t - Midnight) \div 86400

\* The intervals of the stored events: Monday 10:00-11:00, Monday
\* 10:00-12:30, Monday 13:30-14:30, and Tuesday 16:00 to Wednesday 10:00.
BusyIntervals ==
    {[start_time |-> At(0, 600), end_time |-> At(0, 660)],
     [start_time |-> fromisoformat(IsoTime).value,
      end_time |-> fromisoformat(LaterTime).value],
     [start_time |-> At(0, 810), end_time |-> At(0, 870)],
     [start_time |-> At(1, 960), end_time |-> At(2, 600)]}

\* The times of a request: Monday 08:00, Monday 10:30, Friday 08:00 and
\* Saturday 12:00.
Nows == {At(0, 480), At(0, 630), At(4, 480), At(5, 720)}

Durations == {30, 60, 90}

\* A CalendarEvent row that create_event stored for `interval`.
StoredEvent(id, interval) ==
    [id |-> id, google_event_id |-> None, title |-> "standup",
     start_time |-> interval.start_time, end_time |-> interval.end_time,
     status |-> "confirmed", created_from_email |-> 0]

\* Lines 292-296: the events that start at or after `now` and end within
\* days_ahead days.
busy_events(store, now, days_ahead) ==
    {e \in store : /\ e.start_time >= now
                   /\ e.end_time <= now + days_ahead * 86400}

\* Line 311
Conflict(slot_start, slot_end, busy) ==
    \E event \in busy : slot_start < event.end_time /\ slot_end > event.start_time

\* Lines 301-321: the free slots of one day, from 09:00 in steps of one
\* hour while the slot ends by 17:00.
DaySlots(date, duration_minutes, busy) ==
    LET day_start == At(date, 9 * 60)
        day_end == At(date, 17 * 60)
        duration == duration_minutes * 60
        steps == IF day_start + duration > day_end THEN 0
                 ELSE ((day_end - day_start - duration) \div 3600) + 1
        slots == [k \in 1..steps |->
                    [start |-> day_start + (k - 1) * 3600,
                     end |-> day_start + (k - 1) * 3600 + duration]]
    IN  IF weekday(date) < 5
        THEN SelectSeq(slots, LAMBDA slot : ~ Conflict(slot.start, slot.end, busy))
        ELSE <<>>

\* Lines 298-323: the loop over days_ahead days from today.
RECURSIVE SlotsFrom(_, _, _, _)
SlotsFrom(date, days, duration_minutes, busy) ==
    IF days = 0 THEN <<>>
    ELSE DaySlots(date, duration_minutes, busy)
           \o SlotsFrom(date + 1, days - 1, duration_minutes, busy)

\* Line 325: free_slots[:10]
find_free_time(store, now, duration_minutes, days_ahead) ==
    LET free_slots == SlotsFrom(DateOf(now), days_ahead, duration_minutes,
                                busy_events(store, now, days_ahead))
    IN  SubSeq(free_slots, 1, Min(10, Len(free_slots)))

FindFreeTime(now, duration_minutes, days_ahead) ==
    /\ ~ calendar_token
    /\ resp' = [op |-> "find_free_time", status |-> 200, now |-> now,
                duration_minutes |-> duration_minutes, days_ahead |-> days_ahead,
                free_slots |-> find_free_time(events, now, duration_minutes,
                                              days_ahead)]
    /\ UNCHANGED <<mailVars, calVars, svcVars, sumVars, extVars>>

\* No calendar credential, and at most MaxBusy events in the store.
InitFree ==
    /\ gmail_token = FALSE
    /\ calendar_token = FALSE
    /\ mailbox = <<>>
    /\ gcal = <<>>
    /\ emails = {}
    /\ mailTasks = EmptyBag
    /\ \E busy \in UNION {[1..n -> BusyIntervals] : n \in 0..MaxBusy} :
          /\ \A i, j \in DOMAIN busy : i < j => busy[i] # busy[j]
          /\ events = {StoredEvent(i, busy[i]) : i \in DOMAIN busy}
          /\ event_seq = Len(busy)
    /\ calRuns = EmptyBag
    /\ AiIdle

NextFree ==
    \E now \in Nows, duration_minutes \in Durations, days_ahead \in 1..MaxDaysAhead :
        FindFreeTime(now, duration_minutes, days_ahead)

SpecFree == InitFree /\ [][NextFree]_vars

\* The slots of the answer.
FreeSlots == {resp.free_slots[i] : i \in DOMAIN resp.free_slots}

\* At most 10 slots in ascending order, each of the requested duration, on
\* a weekday, within 09:00-17:00 and on the 1-hour grid from 09:00.
SlotsWellFormed ==
    /\ Len(resp.free_slots) <= 10
    /\ \A i, j \in DOMAIN resp.free_slots :
          i < j => resp.free_slots[i].start < resp.free_slots[j].start
    /\ \A slot \in FreeSlots :
          /\ slot.end - slot.start = resp.duration_minutes * 60
          /\ weekday(DateOf(slot.start)) < 5
          /\ slot.start >= At(DateOf(slot.start), 9 * 60)
          /\ slot.end <= At(DateOf(slot.start), 17 * 60)
          /\ (slot.start - At(DateOf(slot.start), 9 * 60)) % 3600 = 0

\* C22: the free-time fallback returns at most 10 slots in ascending order,
\* each of the requested duration, on a weekday within 09:00-17:00, on the
\* 1-hour grid from 09:00, and overlapping no stored event; with the single
\* event Monday 10:00-11:00 and a duration of 60 minutes a request made on
\* that Monday gets the 09:00 and 11:00 slots and not the 10:00 slot.
C22_FreeSlotsAvoidBusy ==
    resp.op = "find_free_time" =>
       /\ SlotsWellFormed
       /\ \A slot \in FreeSlots :
             ~ \E event \in events :
                  slot.start < event.end_time /\ slot.end > event.start_time
       /\ (/\ {[start_time |-> e.start_time, end_time |-> e.end_time] : e \in events}
                = {[start_time |-> At(0, 600), end_time |-> At(0, 660)]}
           /\ resp.duration_minutes = 60
           /\ DateOf(resp.now) = 0) =>
             /\ [start |-> At(0, 540), end |-> At(0, 600)] \in FreeSlots
             /\ [start |-> At(0, 660), end |-> At(0, 720)] \in FreeSlots
             /\ \A slot \in FreeSlots :
                   slot.start \notin {At(0, 600), At(0, 630)}

(***************************************************************************)
(* The single-target requests on Reminders (endpoints/reminders.py),       *)
(* CalendarEvents (endpoints/calendar.py) and Messages                     *)
(* (endpoints/email.py).  Each request has its own session and runs to its *)
(* response in one step.                                                   *)
(***************************************************************************)
\* Rows created and tasks scheduled, all kinds together, in a behaviour of
\* the single-target requests.
MaxRows == 1

Created == reminder_seq + event_seq + sum_started + ext_started

\* The instants of the requests: 10:00, 12:30 and 13:30; every Reminder is
\* due at 10:30.
Clock == {fromisoformat(IsoTime).value, fromisoformat(LaterTime).value,
          fromisoformat(LaterTime).value + 3600}
DueDate == fromisoformat(IsoTime).value + 1800

\* Lines 83-92: the Reminder of a create request.
NewReminder(seq, title) ==
    [id |-> seq + 1, email_id |-> 0, title |-> title, due_date |-> DueDate,
     type |-> "task", priority |-> "medium", is_completed |-> FALSE,
     completed_at |-> NoTime, is_snoozed |-> FALSE, snooze_until |-> NoTime,
     reminder_time |-> DueDate - 3600]

NoReminder == [NewReminder(0, None) EXCEPT !.id = 0]

ReminderResp(op, status, reminder_id, rows) ==
    [op |-> op, status |-> status, reminder_id |-> reminder_id, reminders |-> rows]

ReminderFound(reminder_id) == \E r \in reminders : r.id = reminder_id

TheReminder(reminder_id) == CHOOSE r \in reminders : r.id = reminder_id

\* What a handler that found `old` leaves in the table and answers.
ReminderChanged(op, old, new) ==
    /\ reminders' = (reminders \ {old}) \cup new
    /\ resp' = ReminderResp(op, 200, old.id, new)
    /\ UNCHANGED <<mailVars, calVars, svcVars, sumVars, reminder_seq, extTasks,
                   ext_started>>

\* A handler that answers a request on a missing Reminder as a success.
ReminderSilentNoOp(op, reminder_id) ==
    /\ resp' = ReminderResp(op, 200, reminder_id, {})
    /\ UNCHANGED <<mailVars, calVars, svcVars, sumVars, extVars>>

ReminderNotFound(op, reminder_id) ==
    /\ resp' = ReminderResp(op, 404, reminder_id, {})
    /\ UNCHANGED <<mailVars, calVars, svcVars, sumVars, extVars>>

\* POST /reminders
CreateReminder(title) ==
    /\ Created < MaxRows
    /\ reminders' = reminders \cup {NewReminder(reminder_seq, title)}
    /\ reminder_seq' = reminder_seq + 1
    /\ resp' = ReminderResp("create_reminder", 200, reminder_seq + 1,
                            {NewReminder(reminder_seq, title)})
    /\ UNCHANGED <<mailVars, calVars, svcVars, sumVars, extTasks, ext_started>>

\* GET /reminders/{reminder_id}
GetReminder(reminder_id) ==
    IF ReminderFound(reminder_id)
    THEN ReminderChanged("get_reminder", TheReminder(reminder_id),
                         {TheReminder(reminder_id)})
    ELSE ReminderNotFound("get_reminder", reminder_id)

\* Lines 111-122: the fields of the request that are not None;
\* datetime.utcnow() is the instant IsoTime names.
Updated(r, title, is_completed) ==
    [r EXCEPT !.title = IF title # None THEN title ELSE @,
              !.is_completed = IF is_completed # None THEN is_completed = "true" ELSE @,
              !.completed_at = IF is_completed = "true"
                               THEN fromisoformat(IsoTime).value ELSE @]

\* PUT /reminders/{reminder_id}
UpdateReminder(reminder_id, title, is_completed) ==
    IF ReminderFound(reminder_id)
    THEN ReminderChanged("update_reminder", TheReminder(reminder_id),
                         {Updated(TheReminder(reminder_id), title, is_completed)})
    ELSE ReminderNotFound("update_reminder", reminder_id)

\* DELETE /reminders/{reminder_id}
DeleteReminder(reminder_id) ==
    IF ReminderFound(reminder_id)
    THEN ReminderChanged("delete_reminder", TheReminder(reminder_id), {})
    ELSE ReminderNotFound("delete_reminder", reminder_id)

\* POST /reminders/{reminder_id}/complete
CompleteReminder(reminder_id) ==
    IF ReminderFound(reminder_id)
    THEN ReminderChanged("complete_reminder", TheReminder(reminder_id),
                         {[TheReminder(reminder_id) EXCEPT
                              !.is_completed = TRUE,
                              !.completed_at = fromisoformat(IsoTime).value]})
    ELSE ReminderNotFound("complete_reminder", reminder_id)

\* POST /reminders/{reminder_id}/snooze
SnoozeReminder(reminder_id, snooze_until) ==
    IF ReminderFound(reminder_id)
    THEN ReminderChanged("snooze_reminder", TheReminder(reminder_id),
                         {[TheReminder(reminder_id) EXCEPT !.is_snoozed = TRUE,
                                                           !.snooze_until = snooze_until]})
    ELSE ReminderNotFound("snooze_reminder", reminder_id)

\* A listing that shows a snoozed Reminder again once snooze_until has passed.
ListedAfterSnooze(r, now) ==
    ~ r.is_completed /\ (~ r.is_snoozed \/ r.snooze_until < now)

\* Lines 195-196 and 211-212: is_completed == False, is_snoozed == False
Listed(r, now) == ~ r.is_completed /\ ~ r.is_snoozed

\* GET /reminders/overdue
GetOverdueReminders(now) ==
    /\ resp' = ReminderResp("get_overdue_reminders", 200, 0,
                            {r \in reminders : r.due_date < now /\ Listed(r, now)})
    /\ UNCHANGED <<mailVars, calVars, svcVars, sumVars, extVars>>

\* GET /reminders/upcoming
GetUpcomingReminders(now, hours) ==
    /\ resp' = ReminderResp("get_upcoming_reminders", 200, 0,
                            {r \in reminders :
                                /\ r.due_date >= now
                                /\ r.due_date <= now + hours * 3600
                                /\ Listed(r, now)})
    /\ UNCHANGED <<mailVars, calVars, svcVars, sumVars, extVars>>

\* GET /events/{event_id}
GetEvent(event_id) ==
    /\ IF \E e \in events : e.id = event_id
       THEN resp' = CalResp("get_event", 200, event_id, FALSE, "none", None,
                            CHOOSE e \in events : e.id = event_id)
       ELSE resp' = CalResp("get_event", 404, event_id, FALSE, "none", None, NoEvent)
    /\ UNCHANGED <<mailVars, calVars, svcVars, sumVars, extVars>>

\* A handler that also marks the Message as not yet analysed.
MarkUnprocessed(e) == [e EXCEPT !.is_read = TRUE, !.is_processed = FALSE]

\* Lines 125-126: email.is_read = True; db.commit()
MarkRead(e) == [e EXCEPT !.is_read = TRUE]

\* POST /emails/{email_id}/mark-read
MarkEmailRead(email_id) ==
    /\ IF \E e \in emails : e.id = email_id
       THEN /\ emails' = {IF e.id = email_id THEN MarkRead(e) ELSE e : e \in emails}
            /\ resp' = [NoResp EXCEPT !.op = "mark_email_read", !.status = 200,
                                      !.message = "Email marked as read",
                                      !.email_id = email_id]
       ELSE /\ resp' = [NoResp EXCEPT !.op = "mark_email_read", !.status = 404,
                                      !.message = "Email not found",
                                      !.email_id = email_id]
            /\ UNCHANGED emails
    /\ UNCHANGED <<gmail_token, mailbox, mailTasks, calVars, svcVars, sumVars, extVars>>

\* GET /emails/{email_id}
GetEmail(email_id) ==
    /\ resp' = [NoResp EXCEPT !.op = "get_email",
                              !.status = IF EmailFound(email_id) THEN 200 ELSE 404,
                              !.email_id = email_id]
    /\ UNCHANGED <<mailVars, calVars, svcVars, sumVars, extVars>>

\* One stored Message; no Reminder, CalendarEvent or Summary yet.
InitCrud ==
    /\ gmail_token = TRUE
    /\ calendar_token = FALSE
    /\ mailbox = <<Fetched("A", PlainText)>>
    /\ emails = process_emails({}, mailbox)
    /\ mailTasks = EmptyBag
    /\ gcal = <<>>
    /\ events = {}
    /\ event_seq = 0
    /\ calRuns = EmptyBag
    /\ AiIdle

\* The identifiers of the requests: those of the rows and one more.
RowIds == 1..(MaxRows + 1)

NextCrud ==
    \/ CreateReminder("standup")
    \/ \E reminder_id \in RowIds : GetReminder(reminder_id)
    \/ \E reminder_id \in RowIds, title \in {None, "review"},
          is_completed \in {None, "true", "false"} :
          UpdateReminder(reminder_id, title, is_completed)
    \/ \E reminder_id \in RowIds : DeleteReminder(reminder_id)
    \/ \E reminder_id \in RowIds : CompleteReminder(reminder_id)
    \/ \E reminder_id \in RowIds :
          SnoozeReminder(reminder_id, fromisoformat(LaterTime).value)
    \/ \E now \in Clock : GetOverdueReminders(now)
    \/ \E now \in Clock : GetUpcomingReminders(now, 24)
    \/ Created < MaxRows /\ CreateEvent("standup", "ok")
    \/ \E event_id \in RowIds : GetEvent(event_id)
    \/ \E event_id \in RowIds, title \in {None, "review"} :
          UpdateEvent(event_id, title, "ok")
    \/ \E event_id \in RowIds : DeleteEvent(event_id, "ok")
    \/ \E email_id \in RowIds : GetEmail(email_id)
    \/ \E email_id \in RowIds : MarkEmailRead(email_id)
    \/ \E email_id \in RowIds :
          Created < MaxRows /\ GenerateEmailSummary(email_id, TRUE)
    \/ \E email_id \in RowIds :
          Created < MaxRows /\ ExtractRemindersFromEmail(email_id)

SpecCrud == InitCrud /\ [][NextCrud]_vars

\* The stored rows and the scheduled background tasks.
Store == <<emails, summaries, reminders, events, gcal, mailTasks, calRuns,
           sumTasks, extTasks>>

\* The request answered in this step and whether its target was stored.
ReminderOps == {"get_reminder", "update_reminder", "delete_reminder",
                "complete_reminder", "snooze_reminder"}
EventOps == {"get_event", "update_event", "delete_event"}
MessageOps == {"get_email", "mark_email_read", "generate", "extract"}

TargetAbsent ==
    \/ resp'.op \in ReminderOps /\ ~ ReminderFound(resp'.reminder_id)
    \/ resp'.op \in EventOps /\ ~ \E e \in events : e.id = resp'.event_id
    \/ resp'.op \in MessageOps /\ ~ EmailFound(resp'.email_id)

\* C23: a get, update, delete, complete or snooze of a Reminder, a get,
\* update or delete of a CalendarEvent, a get or mark-read of a Message, a
\* trigger-summarize or a trigger-extraction answers 404 when its target is
\* not stored, and then no stored row changes and no background task is
\* scheduled.
C23_AbsentTargetIsNotFound ==
    [][/\ (resp' # resp /\ TargetAbsent) => resp'.status = 404
       /\ resp'.status = 404 => (TargetAbsent /\ UNCHANGED Store)]_vars

\* A Reminder was deleted and a later request on its identifier was answered
\* 404, while a Message is stored.
C23_Witness ==
    /\ resp.op = "snooze_reminder"
    /\ resp.status = 404
    /\ resp.reminder_id = 1
    /\ reminder_seq = 1
    /\ reminders = {}
    /\ emails # {}

\* The Reminders a listing returned.
ListingOps == {"get_overdue_reminders", "get_upcoming_reminders"}

MaxRuns == 2

Running ==
    BagCardinality(mailTasks) + BagCardinality(sumTasks)
        + Cardinality({t \in BagToSet(extTasks) : t.pc # "done"})

\* An extraction with one task, and {"tasks": [], "events": []}.
OneTask ==
    [EmptyExtraction EXCEPT !.tasks = <<[title |-> "call Bob", due_date |-> None]>>]

\* Nothing stored; the mailbox holds one urgent message.
InitMsg ==
    /\ gmail_token = TRUE
    /\ calendar_token = FALSE
    /\ mailbox = <<Fetched("A", UrgentText)>>
    /\ emails = {}
    /\ mailTasks = EmptyBag
    /\ gcal = <<>>
    /\ events = {}
    /\ event_seq = 0
    /\ calRuns = EmptyBag
    /\ OPENAI_API_KEY \in BOOLEAN
    /\ ANTHROPIC_API_KEY = FALSE
    /\ llm = NoCall
    /\ nlp = NoAnalysis
    /\ resp = NoResp
    /\ summaries = {}
    /\ summary_seq = 0
    /\ sumTasks = EmptyBag
    /\ sum_started = 0
    /\ reminders = {}
    /\ reminder_seq = 0
    /\ extTasks = EmptyBag
    /\ ext_started = 0

NextMsg ==
    \/ Running < MaxRuns /\ SyncEmails(MaxBatch)
    \/ \E task \in BagToSet(mailTasks) : ProcessLookup(task)
    \/ \E task \in BagToSet(mailTasks) : ProcessCommit(task)
    \/ \E task \in BagToSet(mailTasks) : SummaryReturns(task)
    \/ \E task \in BagToSet(mailTasks) : ProcessReturns(task)
    \/ \E email_id \in 1..2 : MarkEmailRead(email_id)
    \/ \E email_id \in 1..2 : Running < MaxRuns /\ GenerateEmailSummary(email_id, TRUE)
    \/ Running < MaxRuns /\ BatchGenerateSummaries(<<1>>)
    \/ \E task \in BagToSet(sumTasks) : CreateSummaryLookup(task)
    \/ \E task \in BagToSet(sumTasks), answer \in {"object", "exception"} :
          CreateSummarySummarized(task, answer)
    \/ \E task \in BagToSet(sumTasks), answer \in ReplyAnswers :
          CreateSummaryReplied(task, answer)
    \/ \E task \in BagToSet(sumTasks) : CreateSummaryCommit(task, TRUE)
    \/ \E email_id \in 1..2 :
          /\ Running < MaxRuns
          /\ ext_started < MaxExtractions
          /\ ExtractRemindersFromEmail(email_id)
    \/ \E task \in BagToSet(extTasks) : RemindersTaskStarts(task)
    \/ \E task \in BagToSet(extTasks) :
          \E answer \in (IF OPENAI_API_KEY THEN {OneTask, NoObject("raise")}
                         ELSE {NoObject("none")}) :
              RemindersTaskExtracted(task, answer)
    \/ \E task \in BagToSet(extTasks) : RemindersTaskFinishes(task, TRUE)

SpecMsg == InitMsg /\ [][NextMsg]_vars

\* C24: every stored Message is analysed from its insertion on, and no step
\* of a re-sync, a mark-read, a summary task or an extraction task removes
\* a Message or changes a field of it, except that mark-read sets is_read
\* on the Message it names and changes nothing else.
C24_MessageNeverRegresses ==
    [][/\ \A e \in emails' : ProcessedFields(e)
       /\ \A e \in emails :
             \E later \in emails' :
                /\ later.id = e.id
                /\ [later EXCEPT !.is_read = e.is_read] = e
                /\ later.is_read # e.is_read =>
                      /\ later.is_read
                      /\ resp'.op = "mark_email_read"
                      /\ resp'.email_id = e.id
      ]_vars

\* The Message was marked read and has a Summary and a Reminder, and a
\* later sync run has found it stored.
C24_Witness ==
    /\ \E e \in emails : e.is_read /\ e.is_processed /\ e.priority = "high"
    /\ summaries # {}
    /\ reminders # {}
    /\ \E task \in BagToSet(mailTasks) :
          task.pc = "done" /\ task.count = 1 /\ task.inserted = {}

MaxWords == 3

Words == {"deadline", "today", "please", "fyi", "?"}

WordTexts == UNION {[1..n -> Words] : n \in 0..MaxWords}

\* `keyword in text_lower`
Contains(words, keyword) == \E i \in DOMAIN words : words[i] = keyword

\* sum(1 for keyword in keywords if keyword in text_lower)
Hits(words, keywords) == Cardinality({k \in keywords : Contains(words, k)})

\* re.search(first + ".*" + one of `then`): the first word, and later one
\* of the others.
Follows(words, first, then) ==
    \E i, j \in DOMAIN words : i < j /\ words[i] = first /\ words[j] \in then

\* re.search("by (?:...)"): the word "by" and right after it one of `then`.
Next1(words, first, then) ==
    \E i \in DOMAIN words :
        i + 1 \in DOMAIN words /\ words[i] = first /\ words[i + 1] \in then

\* Lines 91-100: the time patterns that match.
PatternHits(words) ==
    (IF Next1(words, "by", {"today", "tomorrow", "eod"}) THEN 1 ELSE 0)
      + (IF Follows(words, "deadline", {"today", "tomorrow"}) THEN 1 ELSE 0)
      + (IF Follows(words, "need", {"asap", "immediately", "urgently"}) THEN 1 ELSE 0)
      + (IF Follows(words, "meeting", {"today", "tomorrow"}) THEN 1 ELSE 0)

\* text.count('?')
QuestionMarks(words) == Cardinality({i \in DOMAIN words : words[i] = "?"})

\* What the analyzer reads of the text made of `words`.
Reads(words) ==
    [hi |-> Hits(words, HighKeywords), med |-> Hits(words, MediumKeywords),
     lo |-> Hits(words, LowKeywords), pat |-> PatternHits(words),
     q |-> QuestionMarks(words),
     work |-> Hits(words, WorkKeywords), personal |-> Hits(words, PersonalKeywords),
     promotional |-> Hits(words, PromotionalKeywords),
     social |-> Hits(words, SocialKeywords)]

\* nlp_service.analyze_email on the text made of `words`.
AnalyzeWords(words) ==
    /\ nlp' = [text |-> Reads(words), words |-> words,
               raw |-> score(Reads(words)),
               urgency_score |-> calculate_urgency_score(Reads(words)),
               priority |-> classify_priority(Reads(words)),
               category |-> classify_category(Reads(words))]
    /\ UNCHANGED <<mailVars, calVars, OPENAI_API_KEY, ANTHROPIC_API_KEY, llm,
                   resp, sumVars, extVars>>

NextWords == \E words \in WordTexts : AnalyzeWords(words)

SpecWords == InitNlp /\ [][NextWords]_vars

\* The words of a text in another order.
Reordered(words) ==
    {[i \in DOMAIN words |-> words[f[i]]] :
        f \in {g \in [DOMAIN words -> DOMAIN words] :
                 \A i, j \in DOMAIN words : g[i] = g[j] => i = j}}

\* The keywords of a class among the words of a text.
Among(words, keywords) == keywords \cap {words[i] : i \in DOMAIN words}

CreateEventInsert(title) ==
    /\ event_seq < MaxEvents
    /\ events' = events \cup {LocalEvent(event_seq, title)}
    /\ event_seq' = event_seq + 1
    /\ calRuns' = IF calendar_token
                  THEN calRuns (+) SetToBag({[op |-> "create_event",
                                              event_id |-> event_seq + 1,
                                              title |-> title, pc |-> "remote",
                                              google_event |-> None]})
                  ELSE calRuns
    /\ UNCHANGED <<mailVars, calendar_token, gcal, aiVars>>

\* Lines 110-118: calendar_service.create_event returns the created event,
\* or None, or raises; a request without a created event is over.
CreateEventRemote(run, remote) ==
    /\ run.pc = "remote"
    /\ gcal' = IF remote \in {"ok", "lost"}
               THEN Append(gcal, [google_event_id |-> RemoteId(run.event_id),
                                  title |-> run.title, start_time |-> IsoTime])
               ELSE gcal
    /\ calRuns' = IF remote = "ok"
                  THEN ReplaceIn(calRuns, run,
                          [run EXCEPT !.pc = "attach",
                                      !.google_event = RemoteId(run.event_id)])
                  ELSE calRuns (-) SetToBag({run})
    /\ UNCHANGED <<mailVars, calendar_token, events, event_seq, aiVars>>

\* Lines 120-122: event.google_event_id = ...; db.commit().  A commit that
\* breaks the unique constraint raises into the handler's except.
CreateEventAttach(run) ==
    /\ run.pc = "attach"
    /\ LET event == CHOOSE e \in events : e.id = run.event_id
           attached == [event EXCEPT !.google_event_id = run.google_event]
       IN  events' = IF EventUniqueOk(events \ {event}, attached)
                     THEN (events \ {event}) \cup {attached}
                     ELSE events
    /\ calRuns' = calRuns (-) SetToBag({run})
    /\ UNCHANGED <<mailVars, calendar_token, gcal, event_seq, aiVars>>

\* The remote calendar lists one event twice.
ListedTwice ==
    <<[google_event_id |-> "X", title |-> "standup", start_time |-> IsoTime],
      [google_event_id |-> "X", title |-> "standup", start_time |-> IsoTime]>>

\* A connected user with no local event; the remote calendar is empty or
\* lists one event twice.
InitDup ==
    /\ gmail_token = FALSE
    /\ calendar_token = TRUE
    /\ mailbox = <<>>
    /\ gcal \in {<<>>, ListedTwice}
    /\ emails = {}
    /\ mailTasks = EmptyBag
    /\ events = {}
    /\ event_seq = 0
    /\ calRuns = EmptyBag
    /\ AiIdle

NextDup ==
    \/ \E title \in Titles : CreateEventInsert(title)
    \/ \E run \in BagToSet(calRuns), remote \in RemoteOutcomes :
          CreateEventRemote(run, remote)
    \/ \E run \in BagToSet(calRuns) : CreateEventAttach(run)
    \/ SyncCalendarBegin
    \/ \E run \in BagToSet(calRuns) : SyncCalendarCommit(run)
    \/ \E run \in BagToSet(calRuns) : SyncCalendarReturns(run)

SpecDup == InitDup /\ [][NextDup]_vars

\* The local record `e` stands for the remote event `ge`: it carries its
\* external id, or it is the record create_event pushed as `ge`.
Represents(e, ge) ==
    \/ e.google_event_id = ge.google_event_id
    \/ RemoteId(e.id) = ge.google_event_id

\* C28: no external id is on two local records, and no remote event is
\* represented by two local records: the event create_event pushed is not
\* inserted a second time by sync.
C28_OneLocalRecordPerRemoteEvent ==
    /\ \A e1, e2 \in events :
          (e1.google_event_id # None /\ e1.google_event_id = e2.google_event_id)
             => e1 = e2
    /\ \A j \in DOMAIN gcal :
          Cardinality({e \in events : Represents(e, gcal[j])}) <= 1

\* No external id is on two local records.
ExternalIdsUnique ==
    \A e1, e2 \in events :
        (e1.google_event_id # None /\ e1.google_event_id = e2.google_event_id)
           => e1 = e2

(***************************************************************************)
(* Batch summary generation: the create_email_summary tasks of             *)
(* batch-generate requests, each failing or not on its own.                *)
(***************************************************************************)
NextBatch ==
    \/ \E email_ids \in EmailIdLists : BatchGenerateSummaries(email_ids)
    \/ \E task \in BagToSet(sumTasks) : CreateSummaryLookup(task)
    \/ \E task \in BagToSet(sumTasks), answer \in CompletionAnswers :
          CreateSummarySummarized(task, answer)
    \/ \E task \in BagToSet(sumTasks), answer \in ReplyAnswers :
          CreateSummaryReplied(task, answer)
    \/ \E task \in BagToSet(sumTasks), db_ok \in BOOLEAN : CreateSummaryCommit(task, db_ok)

SpecBatch == InitAi /\ [][NextBatch]_vars

\* The step ends `task` in the except branch: it leaves the tasks and no
\* Summary of its Message appears.
FailsIn(task) ==
    /\ task.pc \in {"summarize", "commit"}
    /\ CopiesIn(task, sumTasks') < CopiesIn(task, sumTasks)
    /\ BagCardinality(sumTasks') < BagCardinality(sumTasks)
    /\ SummariesOf(summaries', task.email_id) = SummariesOf(summaries, task.email_id)

\* C27: the tasks of a batch are isolated.  A step in which the task of one
\* Message fails (and rolls back) removes no stored Summary and leaves every
\* other task as it was; and whatever has failed before, a task that holds
\* usable summary data and commits stores the Summary of its Message.
C27_BatchTasksIsolated ==
    [][\A task \in BagToSet(sumTasks) :
          /\ FailsIn(task) =>
                /\ summaries \subseteq summaries'
                /\ emails' = emails
                /\ \A other \in BagToSet(sumTasks) \ {task} :
                      CopiesIn(other, sumTasks') = CopiesIn(other, sumTasks)
          /\ (/\ task.pc = "commit"
              /\ task.summary_data.json = "object"
              /\ CreateSummaryCommit(task, TRUE))
                => /\ summaries \subseteq summaries'
                   /\ \E x \in summaries' : x.email_id = task.email_id]_vars

\* A batch request scheduled two tasks; both have ended, one of them in
\* failure, and the Summary of the other Message is stored.
C27_Witness ==
    /\ resp.op = "batch"
    /\ resp.count = 2
    /\ sum_started = 2
    /\ sumTasks = EmptyBag
    /\ Cardinality(summaries) = 1

(***************************************************************************)
(* Repeated extraction: trigger-extraction requests for stored Messages,   *)
(* several for one Message, and their tasks.                               *)
(***************************************************************************)
\* The trigger-extraction requests of a behaviour.
MaxTriggers == 2

\* {"tasks": [one task], "events": [one event]}
OneOfEach ==
    [EmptyExtraction EXCEPT
        !.tasks = <<[title |-> "call Bob", due_date |-> None]>>,
        !.events = <<[title |-> "demo", start_time |-> IsoTime, end_time |-> None]>>]

\* The provider answers every extraction alike, or its call raises.
SameAnswers(key) == AnswersFor(key) \cap {OneOfEach, NoObject("raise"), NoObject("none")}

NextTwice ==
    \/ \E email_id \in EmailIdsAsked :
          ext_started < MaxTriggers /\ ExtractRemindersFromEmail(email_id)
    \/ \E task \in BagToSet(extTasks) : RemindersTaskStarts(task)
    \/ \E task \in BagToSet(extTasks) :
          \E answer \in SameAnswers(OPENAI_API_KEY) :
              RemindersTaskExtracted(task, answer)
    \/ \E task \in BagToSet(extTasks), db_ok \in BOOLEAN :
          RemindersTaskFinishes(task, db_ok)

SpecTwice == InitAi /\ [][NextTwice]_vars

\* A task for `email_id` that was given OneOfEach and committed its rows.
CompletedRun(email_id) ==
    [NewExtraction(email_id) EXCEPT
        !.pc = "done", !.outcome = "committed",
        !.built = Len(PendingReminders(email_id, OneOfEach))
                     + Len(PendingEvents(email_id, OneOfEach))]

\* The stored rows that are `row` but for the primary key.
CopiesOf(row, store) == {x \in store : [x EXCEPT !.id = 0] = [id |-> 0] @@ row}

\* C30: extraction is not deduplicated per Message.  The k runs for one
\* Message that completed with the same extractor output have left k copies
\* of every Reminder and every CalendarEvent derived from it, and nothing
\* else is stored for the Message.
C30_EachRunPersistsItsOwnCopies ==
    \A email_id \in EmailIdsAsked :
        LET k == CopiesIn(CompletedRun(email_id), extTasks)
            rs == PendingReminders(email_id, OneOfEach)
            es == PendingEvents(email_id, OneOfEach)
        IN  /\ \A j \in DOMAIN rs : Cardinality(CopiesOf(rs[j], reminders)) = k
            /\ \A j \in DOMAIN es : Cardinality(CopiesOf(es[j], events)) = k
            /\ Cardinality({r \in reminders : r.email_id = email_id}) = k * Len(rs)
            /\ Cardinality({e \in events : e.created_from_email = email_id})
                  = k * Len(es)

\* Two extraction tasks for Message 1 have run and committed, and every
\* derived record of the Message is stored twice.
C30_Witness ==
    /\ CopiesIn(CompletedRun(1), extTasks) = 2
    /\ Cardinality({r \in reminders : r.email_id = 1}) = 4
    /\ Cardinality({e \in events : e.created_from_email = 1}) = 2

====
